---------------------------- MODULE Spec2Model ----------------------------
(***************************************************************************)
(* A model of the file-agent conversation drivers and tool dispatcher.     *)
(*                                                                         *)
(*   src/src/agents/file/claude.rs          FileAgentClaude (capability    *)
(*                                          driver and dispatcher)         *)
(*   src/src/agents/orchestrator/claude.rs  OrchestratorClaude             *)
(*                                          (orchestration driver)         *)
(*   src/src/agents/file/context_manager.rs ContextManager (compactor)     *)
(*   src/src/utils.rs                       audit sink and its counter     *)
(*                                                                         *)
(* One driver instance serves one task.  `variant` says which of the two   *)
(* drivers the behaviour is about.  The reasoning engine, the capability   *)
(* executors and the audit sink's file system are the environment: their   *)
(* answers are drawn from small sets.                                      *)
(***************************************************************************)
EXTENDS Integers, Sequences, FiniteSets, TLC

VARIABLES
    variant,                  \* "file" (FileAgentClaude) or "orch" (OrchestratorClaude)
    script,                   \* the engine: FreeEngine, or a fixed cycle of responses
    pc,                       \* position of the driver in call_claude_api
    round,                    \* `round` of call_claude_api
    messages,                 \* `messages` of call_claude_api: the conversation
    response,                 \* the engine response being processed
    tool_calls,               \* file driver: `tool_calls` parsed from the response
    futures,                  \* file driver: the state of each future of join_all
    completed,                \* file driver: indices of the batch in completion order
    text_response,            \* file driver: `text_response` of the current round
    last_message,             \* orchestration driver: `last_message`
    block_index,              \* orchestration driver: position in the content array
    assistant_content_blocks, \* orchestration driver: blocks copied so far
    continue_conversation,    \* orchestration driver: flag of the current round
    executed,                 \* log: <<round, id>> of every executor invocation
    outcomes,                 \* log: what every executor that returned has returned
    engine_log,               \* log: what the engine answered to every request
    result,                   \* what call_claude_api returned
    requests,                 \* number of engine requests sent so far
    dispatches,               \* number of rounds in which calls were dispatched
    GLOBAL_COUNTER,           \* utils::GLOBAL_COUNTER
    sink                      \* audit sink: the files under bin/messages

\* The state of one capability call, seen from inside Tool::execute (edit.rs,
\* multi_edit.rs)
VARIABLES
    file,                     \* what file_path names on disk: kind and bytes
    file_at_call,             \* log: `file` when execute was called
    params,                   \* the arguments of the call, as parsed
    tool_pc,                  \* position of the call in Tool::execute
    original_content,         \* `original_content`
    matches,                  \* edit: `matches`, the first scan
    new_content,              \* edit: `new_content`
    current_content,          \* multi_edit: `current_content`
    edit_index,               \* multi_edit: operations applied so far
    edit_results,             \* multi_edit: replacements counted per operation
    applied,                  \* log: the buffer each operation saw and produced
    tool_result,              \* what Tool::execute returned
    writes                    \* log: every buffer handed to fs::write

editVars == <<file, file_at_call, params, tool_pc, original_content, matches, new_content,
              current_content, edit_index, edit_results, applied, tool_result,
              writes>>

\* The results of one batch on their way into the conversation (claude.rs:89-97,
\* 213-221)
VARIABLES
    compact_pc,               \* position between join_all and the next request
    raw_results,              \* `raw_results`: (tool_use_id, tool_name, result)
    processed_results,        \* `processed_results.results`
    fed_back                  \* the `content` of each tool_result message pushed

compactorVars == <<compact_pc, raw_results, processed_results, fed_back>>

\* The audit sink over the tasks of one process (lib.rs:70-89, utils.rs)
VARIABLES
    audit_pc,                 \* "idle" between tasks, "task" inside process_message
    task_no,                  \* number of process_message calls so far
    bin_exists,               \* whether the directory bin exists
    task_log,                 \* log: the sequence numbers handed out in this task
    in_flight,                \* the tasks whose process_message has not returned
    handed                    \* the store_claude_message calls of those tasks, in the
                              \* order of their numbers: task, seq, agent_type, and
                              \* st: "pending" until the write, then "written" or "failed"

auditVars == <<audit_pc, task_no, bin_exists, task_log, in_flight, handed>>

toolVars == <<editVars, compactorVars, auditVars>>

driverVars == <<variant, script, pc, round, messages, response, tool_calls, futures,
                completed, text_response, last_message, block_index,
                assistant_content_blocks, continue_conversation, executed, outcomes,
                engine_log, result, requests, dispatches, GLOBAL_COUNTER, sink>>

vars == <<driverVars, toolVars>>

---------------------------------------------------------------------------
(* Program constants *)

\* `let max_rounds = 100;` of both drivers
max_rounds == 100

GREP_TRUNCATE_THRESHOLD == 30
READ_TRUNCATE_THRESHOLD == 2000
LIST_TRUNCATE_THRESHOLD == 100
TOOL_OUTPUT_LIMIT == 30000

\* The generic completion string returned after a break
TaskCompleted == "Task completed successfully"

\* FileAgent::new registers these tools; OrchestratorAgent::get_agents these agents
FileTools == {"ls", "glob", "find", "grep", "todo_write", "read", "write",
              "edit", "multi_edit", "bash"}

OrchestratorAgents == {"file_agent"}

Registry(v) == IF v = "file" THEN FileTools ELSE OrchestratorAgents

\* agent_type under which each driver stores the engine's responses
DriverName(v) == IF v = "file" THEN "file_agent" ELSE "orchestrator"

---------------------------------------------------------------------------
(* Bounds of the model *)

\* A free engine answers the first MaxAnswered requests of a task
MaxAnswered == 2

\* A free engine requests at most MaxCalls capability calls in one task
MaxCalls == 4

---------------------------------------------------------------------------
(* JSON values of the engine protocol *)

\* A member that is missing from a JSON object (or, for an id or a name, no string)
Absent == "<absent>"

NoInput == [present |-> FALSE, task |-> Absent]

TextBlock(t) ==
    [type |-> "text", text |-> t, name |-> Absent, id |-> Absent, input |-> NoInput]

\* `task` is the "task" member of the block's input object
ToolUse(n, i, task) ==
    [type |-> "tool_use", text |-> Absent, name |-> n, id |-> i,
     input |-> [present |-> TRUE, task |-> task]]

\* A tool_use block whose "input" member is missing
ToolUseNoInput(n, i) ==
    [type |-> "tool_use", text |-> Absent, name |-> n, id |-> i, input |-> NoInput]

ToolResultBlock(id, content) ==
    [type |-> "tool_result", tool_use_id |-> id, content |-> content]

\* A response body: has_content is FALSE when "content" is missing or no array
ResponseOf(blocks) == [has_content |-> TRUE, content |-> blocks]

NoContentResponse == [has_content |-> FALSE, content |-> <<>>]

Ok(v) == [ok |-> TRUE, value |-> v]

Err(e) == [ok |-> FALSE, value |-> e]

NoResult == [ok |-> FALSE, value |-> "<running>"]

Message(role, content) == [role |-> role, content |-> content]

---------------------------------------------------------------------------
(* Strings *)

Char(s, i) == SubSeq(s, i, i)

IsWhitespace(c) == c \in {" ", "\n", "\t", "\r"}

\* str::trim().is_empty()
TrimIsEmpty(s) == \A i \in 1..Len(s) : IsWhitespace(Char(s, i))

\* str::lines(): split at "\n" (a "\r" before it is dropped); a final line
\* needs no line ending and an empty final line is not reported
StripCR(l) ==
    IF Len(l) > 0 /\ Char(l, Len(l)) = "\r" THEN SubSeq(l, 1, Len(l) - 1) ELSE l

\* s[lo..hi] cut at every "\n": the pieces in order, the last being what
\* follows the last "\n" (the range is halved so that long results are handled)
RECURSIVE SplitLines(_, _, _)
SplitLines(s, lo, hi) ==
    IF lo > hi THEN <<"">>
    ELSE IF lo = hi THEN IF Char(s, lo) = "\n" THEN <<"", "">> ELSE <<Char(s, lo)>>
    ELSE LET mid == (lo + hi) \div 2
             l == SplitLines(s, lo, mid)
             r == SplitLines(s, mid + 1, hi)
         IN SubSeq(l, 1, Len(l) - 1) \o <<l[Len(l)] \o r[1]>> \o Tail(r)

Lines(s) ==
    LET pieces == SplitLines(s, 1, Len(s))
        n == Len(pieces)
    IN [k \in 1..(IF pieces[n] = "" THEN n - 1 ELSE n) |->
           IF k < n THEN StripCR(pieces[k]) ELSE pieces[k]]

\* [&str]::join("\n")
RECURSIVE JoinLines(_)
JoinLines(ls) ==
    IF Len(ls) = 0 THEN ""
    ELSE IF Len(ls) = 1 THEN ls[1]
    ELSE ls[1] \o "\n" \o JoinLines(Tail(ls))

\* iter().take(n) and iter().skip(n)
Take(ls, n) == SubSeq(ls, 1, IF n < Len(ls) THEN n ELSE Len(ls))

Skip(ls, n) == SubSeq(ls, n + 1, Len(ls))

\* usize::saturating_sub
SaturatingSub(a, b) == IF a > b THEN a - b ELSE 0

\* str::find(':'): the offset (from 0) of the first ':' or -1
RECURSIVE FindColon(_, _)
FindColon(l, i) ==
    IF i > Len(l) THEN -1
    ELSE IF Char(l, i) = ":" THEN i - 1 ELSE FindColon(l, i + 1)

---------------------------------------------------------------------------
(* Context compactor: context_manager.rs *)

\* Faulty variant: every line that names a source is counted
count_unique_files_lines(lines) ==
    Cardinality({ j \in 1..Len(lines) : FindColon(lines[j], 1) >= 0 })

count_unique_files(lines) ==
    Cardinality({ SubSeq(lines[k], 1, FindColon(lines[k], 1)) :
                  k \in { j \in 1..Len(lines) : FindColon(lines[j], 1) >= 0 } })

\* Faulty variant: a result of exactly the threshold is summarised
process_grep_result_strict(res) ==
    LET lines == Lines(res) IN
    IF Len(lines) < GREP_TRUNCATE_THRESHOLD THEN res
    ELSE "Found " \o ToString(Len(lines)) \o " matches across "
         \o ToString(count_unique_files(lines))
         \o " files.\n\nFirst 50 matches:\n" \o JoinLines(Take(lines, 50))
         \o "\n\n... [TRUNCATED] ...\n\nLast 10 matches:\n"
         \o (IF Len(lines) > 10 THEN JoinLines(Skip(lines, Len(lines) - 10))
             ELSE JoinLines(lines))

process_grep_result(res) ==
    LET lines == Lines(res) IN
    IF Len(lines) <= GREP_TRUNCATE_THRESHOLD THEN res
    ELSE "Found " \o ToString(Len(lines)) \o " matches across "
         \o ToString(count_unique_files(lines))
         \o " files.\n\nFirst 50 matches:\n" \o JoinLines(Take(lines, 50))
         \o "\n\n... [TRUNCATED] ...\n\nLast 10 matches:\n"
         \o (IF Len(lines) > 10 THEN JoinLines(Skip(lines, Len(lines) - 10))
             ELSE JoinLines(lines))

\* Faulty variant: the middle window starts at the midpoint
process_read_result_from_middle(res) ==
    LET lines == Lines(res)
        middle_start == Len(lines) \div 2
    IN
    IF Len(lines) <= READ_TRUNCATE_THRESHOLD THEN res
    ELSE "=== FILE PREVIEW (Large file: " \o ToString(Len(lines))
         \o " lines) ===\n\nBEGINNING (50 lines):\n" \o JoinLines(Take(lines, 50))
         \o "\n\nMIDDLE (around line " \o ToString(middle_start) \o "):\n"
         \o JoinLines(Take(Skip(lines, middle_start), 50))
         \o "\n\nEND (last 50 lines):\n"
         \o JoinLines(Skip(lines, SaturatingSub(Len(lines), 50)))

process_read_result(res) ==
    LET lines == Lines(res)
        middle_start == Len(lines) \div 2
    IN
    IF Len(lines) <= READ_TRUNCATE_THRESHOLD THEN res
    ELSE "=== FILE PREVIEW (Large file: " \o ToString(Len(lines))
         \o " lines) ===\n\nBEGINNING (50 lines):\n" \o JoinLines(Take(lines, 50))
         \o "\n\nMIDDLE (around line " \o ToString(middle_start) \o "):\n"
         \o JoinLines(Take(Skip(lines, SaturatingSub(middle_start, 25)), 50))
         \o "\n\nEND (last 50 lines):\n"
         \o JoinLines(Skip(lines, SaturatingSub(Len(lines), 50)))

process_ls_result(res) ==
    LET lines == Lines(res) IN
    IF Len(lines) <= LIST_TRUNCATE_THRESHOLD THEN res
    ELSE "Large directory listing (" \o ToString(Len(lines))
         \o " items):\n\nFirst 50 items:\n" \o JoinLines(Take(lines, 50))
         \o "\n\n... [TRUNCATED] ...\n\nLast 10 items:\n"
         \o JoinLines(Skip(lines, Len(lines) - 10))

process_glob_result(res) ==
    LET lines == Lines(res) IN
    IF Len(lines) <= LIST_TRUNCATE_THRESHOLD THEN res
    ELSE "Found " \o ToString(Len(lines))
         \o " matching files:\n\nFirst 50 files:\n" \o JoinLines(Take(lines, 50))
         \o "\n\n... [TRUNCATED] ...\n\nLast 10 files:\n"
         \o JoinLines(Skip(lines, Len(lines) - 10))

\* One entry of process_results_locally: the result of tool `tool_name`
process_result(tool_name, res) ==
    CASE tool_name = "grep" -> process_grep_result(res)
      [] tool_name = "read" -> process_read_result(res)
      [] tool_name = "ls" -> process_ls_result(res)
      [] tool_name = "glob" -> process_glob_result(res)
      [] OTHER -> res

\* process_results_locally: every (tool_use_id, tool_name, result), in order
process_results_locally(results) ==
    [k \in 1..Len(results) |->
        [tool_use_id |-> results[k].tool_use_id,
         tool_name |-> results[k].tool_name,
         output |-> process_result(results[k].tool_name, results[k].output)]]

\* A result is a string of bytes, one character of the model's string a byte.
\* Bytes above 0x7f have no character here: "<" stands for 0xC3 and ">" for
\* 0xA9, the lead byte and the continuation byte of "é"
ContinuationBytes == {">"}

\* str::is_char_boundary(index), index counted from 0
is_char_boundary(content, index) ==
    \/ index = 0
    \/ index = Len(content)
    \/ index < Len(content) /\ Char(content, index + 1) \notin ContinuationBytes

\* truncate_content: `&content[..TOOL_OUTPUT_LIMIT]` panics where the limit is
\* not a character boundary
truncate_panics(content) ==
    Len(content) > TOOL_OUTPUT_LIMIT /\ ~is_char_boundary(content, TOOL_OUTPUT_LIMIT)

\* Faulty variant: the marker states the number of bytes cut off
truncate_content_removed(content) ==
    IF Len(content) <= TOOL_OUTPUT_LIMIT THEN content
    ELSE SubSeq(content, 1, TOOL_OUTPUT_LIMIT) \o "... [TRUNCATED - "
         \o ToString(Len(content) - TOOL_OUTPUT_LIMIT) \o " total chars]"

\* truncate_content, where it does not panic
truncate_content(content) ==
    IF Len(content) <= TOOL_OUTPUT_LIMIT THEN content
    ELSE SubSeq(content, 1, TOOL_OUTPUT_LIMIT) \o "... [TRUNCATED - "
         \o ToString(Len(content)) \o " total chars]"

---------------------------------------------------------------------------
(* Audit sink: utils.rs *)

\* store_claude_message writes bin/messages/<agent_type>/<seq>_<agent_type>_message.json;
\* a second write to the same path replaces the first
WriteFile(files, seq, agent_type, what) ==
    { f \in files : ~(f.seq = seq /\ f.agent_type = agent_type) }
        \cup { [seq |-> seq, agent_type |-> agent_type, what |-> what] }

\* store_claude_message: the sequence number is taken first; creating the
\* directory or writing the file may then fail (io_ok = FALSE)
store_claude_message(files, counter, agent_type, what, io_ok) ==
    [counter |-> counter + 1,
     files |-> IF io_ok THEN WriteFile(files, counter, agent_type, what) ELSE files,
     ok |-> io_ok]

---------------------------------------------------------------------------
(* Parsing of a response: the `for content_element in array` loops *)

\* file driver: a block that becomes a ToolCall
IsFileToolCall(b) ==
    b.type = "tool_use" /\ b.name # Absent /\ b.input.present /\ b.id # Absent

\* orchestration driver: a block that is dispatched to an agent
IsAgentCall(b) ==
    b.type = "tool_use" /\ b.id # Absent /\ b.name # Absent /\ b.input.present

ToolCallOf(b) == [name |-> b.name, arguments |-> b.input, tool_use_id |-> b.id]

\* file driver: `tool_calls` after the loop over the content array
ParseToolCalls(content) ==
    LET calls == SelectSeq(content, IsFileToolCall)
    IN [k \in 1..Len(calls) |-> ToolCallOf(calls[k])]

\* Faulty variant: the first text block wins
RECURSIVE ParseFirstText(_)
ParseFirstText(content) ==
    IF Len(content) = 0 THEN ""
    ELSE IF content[1].type = "text" /\ content[1].text # Absent THEN content[1].text
    ELSE ParseFirstText(Tail(content))

\* file driver: `text_response` after the loop: the last text block wins
RECURSIVE ParseTextResponse(_)
ParseTextResponse(content) ==
    IF Len(content) = 0 THEN ""
    ELSE LET b == content[Len(content)] IN
         IF b.type = "text" /\ b.text # Absent THEN b.text
         ELSE ParseTextResponse(SubSeq(content, 1, Len(content) - 1))

\* What call_claude_api returns after its loop (break or round ceiling)
AfterLoop(v, lm) ==
    IF v = "file" THEN Ok(TaskCompleted)
    ELSE IF TrimIsEmpty(lm) THEN Ok(TaskCompleted) ELSE Ok(lm)

---------------------------------------------------------------------------
(* Environment: what the engine and the executors may answer *)

Task == "task"

ToolOutputs == {"out"}

ToolErrors == {"boom"}

\* Contents a free engine may answer with
EngineContents ==
    { <<TextBlock("A")>>,
      <<TextBlock("")>>,
      <<TextBlock(" ")>>,
      <<TextBlock("A"), TextBlock("B")>>,
      <<>>,
      <<ToolUse("read", "id1", "t1")>>,
      <<ToolUse("file_agent", "id1", "t1")>>,
      <<ToolUse("file_agent", "id1", Absent)>>,
      <<ToolUse("read", Absent, "t1")>>,
      <<ToolUseNoInput("file_agent", "id1")>>,
      <<ToolUse("read", "id1", "t1"), TextBlock("C")>>,
      <<TextBlock("B"), ToolUse("file_agent", "id1", "t1")>>,
      <<ToolUse("nope", "id1", "t1"), ToolUse("read", "id2", "t1")>>,
      <<ToolUse("file_agent", "id1", "t1"), TextBlock("B"),
        ToolUse("file_agent", "id2", "t1")>>,
      <<ToolUse("read", "id1", "t1"), ToolUse("edit", "id2", "t1"),
        ToolUse("grep", "id3", "t1")>> }

EngineResponses == { ResponseOf(c) : c \in EngineContents } \cup { NoContentResponse }

\* Contents of a scripted engine: always a well-formed call of a registered
\* capability, with or without text beside it
ScriptContents(v) ==
    LET n == IF v = "file" THEN "read" ELSE "file_agent" IN
    { <<ToolUse(n, "id1", "t1")>>,
      <<TextBlock("A"), ToolUse(n, "id1", "t1")>>,
      <<ToolUse(n, "id1", "t1"), TextBlock("B")>>,
      <<TextBlock(" "), ToolUse(n, "id1", "t1")>> }

FreeEngine == [responses |-> <<>>, outcome |-> "free"]

\* Executor invocations a response asks for, under driver v
NumCalls(v, resp) ==
    Cardinality({ k \in 1..Len(resp.content) :
                    /\ IsFileToolCall(resp.content[k])
                    /\ resp.content[k].name \in Registry(v) })

---------------------------------------------------------------------------
(* Text mutation engine: tools/edit.rs and tools/multi_edit.rs.            *)
(* A file and the strings of a call are sequences of UTF-8 bytes; offsets  *)
(* count bytes from 0, as usize offsets into a &str do.                    *)

\* Longest file content the model draws, in characters
MaxContentLen == 3

\* Longest edit list the model draws
MaxEdits == 2

\* The characters of the model: "a", "b", "\n" and the two-byte "é"
Characters == { <<97>>, <<98>>, <<10>>, <<195, 169>> }

Newline == <<10>>

RECURSIVE TextsUpTo(_)
TextsUpTo(n) ==
    IF n = 0 THEN { <<>> }
    ELSE TextsUpTo(n - 1) \cup { t \o c : t \in TextsUpTo(n - 1), c \in Characters }

\* &s[from..to]
Slice(s, from, to) == SubSeq(s, from + 1, to)

\* str::is_char_boundary: 0, len, or a byte that is not a continuation byte
IsCharBoundary(s, i) ==
    \/ i = 0
    \/ i = Len(s)
    \/ i < Len(s) /\ s[i + 1] \notin 128..191

\* str::find(pattern): the offset of the first occurrence, -1 for None
StrFind(hay, pattern) ==
    LET at == { p \in 0..(Len(hay) - Len(pattern)) :
                    Slice(hay, p, p + Len(pattern)) = pattern }
    IN IF at = {} THEN -1 ELSE CHOOSE p \in at : \A q \in at : p <= q

\* str::contains
StrContains(hay, pattern) == StrFind(hay, pattern) # -1

\* str::replacen(old, new, n) for a non-empty `old`: the first n occurrences,
\* found left to right, each search resuming after the previous occurrence
RECURSIVE StrReplaceN(_, _, _, _)
StrReplaceN(s, old, new, n) ==
    LET p == StrFind(s, old) IN
    IF n = 0 \/ p = -1 THEN s
    ELSE Slice(s, 0, p) \o new
         \o StrReplaceN(Slice(s, p + Len(old), Len(s)), old, new, n - 1)

\* str::replace(old, new): every occurrence found that way
StrReplace(s, old, new) == StrReplaceN(s, old, new, Len(s))

\* What a scan gives: a vector of (start, end, line), or a panic where a
\* slice does not start on a character boundary
Scanned(ms) == [panicked |-> FALSE, matches |-> ms]

ScanPanic == [panicked |-> TRUE, matches |-> <<>>]

\* find_matches, the inner `while`: advance line_num / line_start up to the
\* line that holds absolute_pos
RECURSIVE CountLines(_, _, _, _)
CountLines(content, absolute_pos, line_num, line_start) ==
    IF line_start <= absolute_pos /\ line_start < Len(content)
    THEN IF ~IsCharBoundary(content, line_start)
         THEN [panicked |-> TRUE, line_num |-> line_num, line_start |-> line_start]
         ELSE LET newline_pos == StrFind(Slice(content, line_start, Len(content)), Newline)
                  abs_newline == line_start + newline_pos
              IN IF newline_pos # -1 /\ abs_newline < absolute_pos
                 THEN CountLines(content, absolute_pos, line_num + 1, abs_newline + 1)
                 ELSE [panicked |-> FALSE, line_num |-> line_num, line_start |-> line_start]
    ELSE [panicked |-> FALSE, line_num |-> line_num, line_start |-> line_start]

\* `current_pos = absolute_pos + 1`
Resume(absolute_pos, search_string) == absolute_pos + 1

\* find_matches, the outer `while current_pos < content.len()`
RECURSIVE FindMatchesFrom(_, _, _, _, _, _)
FindMatchesFrom(content, search_string, current_pos, line_num, line_start, found) ==
    IF current_pos >= Len(content) THEN Scanned(found)
    ELSE IF ~IsCharBoundary(content, current_pos) THEN ScanPanic
    ELSE LET pos == StrFind(Slice(content, current_pos, Len(content)), search_string)
             absolute_pos == current_pos + pos
             counted == CountLines(content, absolute_pos, line_num, line_start)
         IN IF pos = -1 THEN Scanned(found)
            ELSE IF counted.panicked THEN ScanPanic
            ELSE FindMatchesFrom(content, search_string,
                                 Resume(absolute_pos, search_string),
                                 counted.line_num, counted.line_start,
                                 Append(found, <<absolute_pos,
                                                 absolute_pos + Len(search_string),
                                                 counted.line_num>>))

find_matches(content, search_string) ==
    FindMatchesFrom(content, search_string, 0, 1, 0, <<>>)

\* validate_edit_params (edit.rs) and the per-operation checks of
\* validate_edits (multi_edit.rs): "" when the strings pass
validate_edit_params(old_string, new_string) ==
    IF old_string = <<>> THEN "EmptyPattern"
    ELSE IF old_string = new_string THEN "NoOpEdit"
    ELSE ""

\* `replace_all ? replace : replacen(.., 1)`
Replaced(content, old_string, new_string, replace_all) ==
    IF replace_all THEN StrReplace(content, old_string, new_string)
    ELSE StrReplaceN(content, old_string, new_string, 1)

\* Faulty variant: the candidate is not scanned again
validate_result_unchecked(original, candidate, old_string, new_string, replace_all) ==
    [panicked |-> FALSE, error |-> ""]

\* validate_result: three scans, of which any may panic; "" when it passes
validate_result(original, candidate, old_string, new_string, replace_all) ==
    LET original_matches == find_matches(original, old_string)
        result_matches == find_matches(candidate, old_string)
        new_matches == find_matches(candidate, new_string)
        failed == IF replace_all
                  THEN Len(result_matches.matches) # 0
                  ELSE \/ Len(original_matches.matches) = Len(result_matches.matches)
                       \/ Len(result_matches.matches) # Len(original_matches.matches) - 1
    IN IF original_matches.panicked \/ result_matches.panicked
       THEN [panicked |-> TRUE, error |-> ""]
       ELSE IF failed THEN [panicked |-> FALSE, error |-> "PostconditionFailed"]
       ELSE IF new_matches.panicked THEN [panicked |-> TRUE, error |-> ""]
       ELSE [panicked |-> FALSE, error |-> ""]

\* The line numbers of a scan, as the AmbiguousMatch message lists them
LineNumbers(ms) == [k \in 1..Len(ms) |-> ms[k][3]]

\* What Tool::execute returns
Running == [status |-> "running", kind |-> "", at |-> <<>>, replacements |-> 0]

ToolOk(replacements, at) ==
    [status |-> "ok", kind |-> "", at |-> at, replacements |-> replacements]

ToolErr(kind, at) == [status |-> "err", kind |-> kind, at |-> at, replacements |-> 0]

\* The arguments of a call
EditParams(old_string, new_string, replace_all) ==
    [tool |-> "edit", parsed |-> TRUE, old_string |-> old_string,
     new_string |-> new_string, replace_all |-> replace_all, edits |-> <<>>]

EditOperation(old_string, new_string, replace_all) ==
    [old_string |-> old_string, new_string |-> new_string, replace_all |-> replace_all]

MultiEditParams(edits) ==
    [tool |-> "multi_edit", parsed |-> TRUE, old_string |-> <<>>,
     new_string |-> <<>>, replace_all |-> FALSE, edits |-> edits]

\* Arguments serde_json::from_str rejects
Malformed(tool) ==
    [tool |-> tool, parsed |-> FALSE, old_string |-> <<>>, new_string |-> <<>>,
     replace_all |-> FALSE, edits |-> <<>>]

\* What file_path names
RegularFile(content) == [kind |-> "file", content |-> content]

Missing == [kind |-> "missing", content |-> <<>>]

Directory == [kind |-> "dir", content |-> <<>>]

\* `return Ok(..)` / `return Err(..)` / `?` of execute
ToolReturn(r) ==
    /\ tool_pc' = "returned"
    /\ tool_result' = r

\* a panic unwinds out of execute
ToolPanic ==
    /\ tool_pc' = "panicked"
    /\ UNCHANGED tool_result

\* exists(), is_file() and fs::read_to_string: "" when the content was read
OpenError(f) ==
    IF f.kind = "missing" THEN "FileMissing"
    ELSE IF f.kind # "file" THEN "NotAFile"
    ELSE ""

\* fs::write(path, content): the file is created or truncated, then filled;
\* where it fails the file is as it was, or was truncated and not filled
WriteOutcomes(f, content) ==
    { [ok |-> TRUE, file |-> RegularFile(content)],
      [ok |-> FALSE, file |-> f],
      [ok |-> FALSE, file |-> RegularFile(<<>>)] }

\* What the steps of one call leave alone
ToolFrame(changed) ==
    /\ IF "file" \in changed THEN TRUE ELSE UNCHANGED <<file, writes>>
    /\ IF "original_content" \in changed THEN TRUE ELSE UNCHANGED original_content
    /\ IF "matches" \in changed THEN TRUE ELSE UNCHANGED matches
    /\ IF "new_content" \in changed THEN TRUE ELSE UNCHANGED new_content
    /\ IF "current_content" \in changed THEN TRUE
       ELSE UNCHANGED <<current_content, edit_index, edit_results, applied>>
    /\ UNCHANGED <<file_at_call, params, driverVars, compactorVars, auditVars>>

---------------------------------------------------------------------------
(* EditTool::execute, edit.rs:199-315 *)

\* serde_json::from_str(arguments)? and validate_edit_params(&params)?
EditValidate ==
    /\ tool_pc = "called"
    /\ params.tool = "edit"
    /\ IF ~params.parsed THEN ToolReturn(ToolErr("BadArguments", <<>>))
       ELSE IF validate_edit_params(params.old_string, params.new_string) # ""
       THEN ToolReturn(ToolErr(validate_edit_params(params.old_string,
                                                    params.new_string), <<>>))
       ELSE tool_pc' = "validated" /\ UNCHANGED tool_result
    /\ ToolFrame({})

\* the path checks and fs::read_to_string
EditRead ==
    /\ tool_pc = "validated"
    /\ params.tool = "edit"
    /\ IF OpenError(file) # ""
       THEN ToolReturn(ToolErr(OpenError(file), <<>>)) /\ UNCHANGED original_content
       ELSE /\ original_content' = file.content
            /\ tool_pc' = "read"
            /\ UNCHANGED tool_result
    /\ ToolFrame({"original_content"})

\* the first scan: NotFound, AmbiguousMatch with the line of every match
EditScan ==
    /\ tool_pc = "read"
    /\ params.tool = "edit"
    /\ LET scan == find_matches(original_content, params.old_string) IN
       IF scan.panicked THEN ToolPanic /\ UNCHANGED matches
       ELSE IF Len(scan.matches) = 0
       THEN ToolReturn(ToolErr("NotFound", <<>>)) /\ UNCHANGED matches
       ELSE IF ~params.replace_all /\ Len(scan.matches) > 1
       THEN /\ ToolReturn(ToolErr("AmbiguousMatch", LineNumbers(scan.matches)))
            /\ UNCHANGED matches
       ELSE /\ matches' = scan.matches
            /\ tool_pc' = "located"
            /\ UNCHANGED tool_result
    /\ ToolFrame({"matches"})

\* Faulty variant: the replacement is written before it is validated
EditReplaceInPlace ==
    /\ tool_pc = "located"
    /\ new_content' = Replaced(original_content, params.old_string,
                               params.new_string, params.replace_all)
    /\ file' = RegularFile(new_content')
    /\ writes' = Append(writes, new_content')
    /\ tool_pc' = "replaced"
    /\ UNCHANGED tool_result
    /\ ToolFrame({"new_content", "file"})

\* the replacement, in memory
EditReplace ==
    /\ tool_pc = "located"
    /\ new_content' = Replaced(original_content, params.old_string,
                               params.new_string, params.replace_all)
    /\ tool_pc' = "replaced"
    /\ UNCHANGED tool_result
    /\ ToolFrame({"new_content"})

\* validate_result(..)?
EditValidateResult ==
    /\ tool_pc = "replaced"
    /\ LET checked == validate_result(original_content, new_content, params.old_string,
                                      params.new_string, params.replace_all)
       IN IF checked.panicked THEN ToolPanic
          ELSE IF checked.error # "" THEN ToolReturn(ToolErr(checked.error, <<>>))
          ELSE tool_pc' = "checked" /\ UNCHANGED tool_result
    /\ ToolFrame({})

\* fs::write(&file_path, &validated_content) and the report
EditWrite ==
    /\ tool_pc = "checked"
    /\ \E w \in WriteOutcomes(file, new_content) :
          /\ file' = w.file
          /\ ToolReturn(IF w.ok
                        THEN ToolOk(IF params.replace_all THEN Len(matches) ELSE 1,
                                    <<matches[1][3]>>)
                        ELSE ToolErr("WriteFailed", <<>>))
    /\ writes' = Append(writes, new_content)
    /\ ToolFrame({"file"})

---------------------------------------------------------------------------
(* MultiEditTool::execute, multi_edit.rs:242-355 *)

\* `edits.len() > 50`
MAX_EDITS_PER_CALL == 50

\* Faulty variant: a list of exactly 50 operations is rejected too
validate_edits_below(edits) ==
    LET bad == { i \in 1..Len(edits) :
                   validate_edit_params(edits[i].old_string, edits[i].new_string) # "" }
        first == CHOOSE i \in bad : \A j \in bad : i <= j
    IN IF Len(edits) = 0 THEN [kind |-> "NoEdits", at |-> <<>>]
       ELSE IF Len(edits) >= MAX_EDITS_PER_CALL THEN [kind |-> "TooManyEdits", at |-> <<>>]
       ELSE IF bad # {}
       THEN [kind |-> validate_edit_params(edits[first].old_string,
                                           edits[first].new_string),
             at |-> <<first>>]
       ELSE [kind |-> "", at |-> <<>>]

\* validate_edits: the list as a whole, then each operation in order; the
\* kind of the first failure and the number of the operation, or ""
validate_edits(edits) ==
    LET bad == { i \in 1..Len(edits) :
                   validate_edit_params(edits[i].old_string, edits[i].new_string) # "" }
        first == CHOOSE i \in bad : \A j \in bad : i <= j
    IN IF Len(edits) = 0 THEN [kind |-> "NoEdits", at |-> <<>>]
       ELSE IF Len(edits) > MAX_EDITS_PER_CALL THEN [kind |-> "TooManyEdits", at |-> <<>>]
       ELSE IF bad # {}
       THEN [kind |-> validate_edit_params(edits[first].old_string,
                                           edits[first].new_string),
             at |-> <<first>>]
       ELSE [kind |-> "", at |-> <<>>]

\* apply_single_edit: one scan, then the replacement
apply_single_edit(content, edit) ==
    LET scan == find_matches(content, edit.old_string) IN
    IF scan.panicked
    THEN [panicked |-> TRUE, error |-> "", content |-> content, replacements |-> 0]
    ELSE IF Len(scan.matches) = 0
    THEN [panicked |-> FALSE, error |-> "NotFound", content |-> content,
          replacements |-> 0]
    ELSE IF ~edit.replace_all /\ Len(scan.matches) > 1
    THEN [panicked |-> FALSE, error |-> "AmbiguousMatch", content |-> content,
          replacements |-> 0]
    ELSE [panicked |-> FALSE, error |-> "",
          content |-> Replaced(content, edit.old_string, edit.new_string,
                               edit.replace_all),
          replacements |-> IF edit.replace_all THEN Len(scan.matches) ELSE 1]

MultiValidate ==
    /\ tool_pc = "called"
    /\ params.tool = "multi_edit"
    /\ IF ~params.parsed THEN ToolReturn(ToolErr("BadArguments", <<>>))
       ELSE IF validate_edits(params.edits).kind # ""
       THEN ToolReturn(ToolErr(validate_edits(params.edits).kind,
                               validate_edits(params.edits).at))
       ELSE tool_pc' = "validated" /\ UNCHANGED tool_result
    /\ ToolFrame({})

\* the path checks, fs::read_to_string and `current_content = original_content.clone()`
MultiRead ==
    /\ tool_pc = "validated"
    /\ params.tool = "multi_edit"
    /\ IF OpenError(file) # ""
       THEN /\ ToolReturn(ToolErr(OpenError(file), <<>>))
            /\ UNCHANGED <<original_content, current_content>>
       ELSE /\ original_content' = file.content
            /\ current_content' = file.content
            /\ tool_pc' = "loop"
            /\ UNCHANGED tool_result
    /\ UNCHANGED <<edit_index, edit_results, applied>>
    /\ ToolFrame({"original_content", "current_content"})

\* Faulty variant: every operation is applied to the content as read
EditInputOriginal(original, current) == original

\* the buffer an operation is applied to: `&current_content`
EditInput(original, current) == current

\* Faulty variant: a failed operation is logged and the loop goes on
ApplySkipped(kind, i) ==
    /\ tool_pc' = "loop"
    /\ edit_index' = i
    /\ edit_results' = Append(edit_results, 0)
    /\ UNCHANGED <<tool_result, current_content>>

\* `Err(e) => return Err(..)`: the call ends at the first failed operation
ApplyFailed(kind, i) ==
    /\ ToolReturn(ToolErr(kind, <<i>>))
    /\ UNCHANGED <<current_content, edit_index, edit_results>>

\* one turn of `for (i, edit) in params.edits.iter().enumerate()`
MultiApply ==
    /\ tool_pc = "loop"
    /\ edit_index < Len(params.edits)
    /\ LET input == EditInput(original_content, current_content)
           r == apply_single_edit(input, params.edits[edit_index + 1])
       IN IF r.panicked
          THEN ToolPanic /\ UNCHANGED <<current_content, edit_index, edit_results, applied>>
          ELSE /\ applied' = Append(applied, [input |-> input, error |-> r.error,
                                              output |-> r.content])
               /\ IF r.error # "" THEN ApplyFailed(r.error, edit_index + 1)
                  ELSE /\ current_content' = r.content
                       /\ edit_index' = edit_index + 1
                       /\ edit_results' = Append(edit_results, r.replacements)
                       /\ tool_pc' = "loop"
                       /\ UNCHANGED tool_result
    /\ ToolFrame({"current_content"})

RECURSIVE Sum(_)
Sum(ns) == IF ns = <<>> THEN 0 ELSE Head(ns) + Sum(Tail(ns))

\* after the loop: fs::write(&file_path, &current_content) and the report
MultiWrite ==
    /\ tool_pc = "loop"
    /\ edit_index = Len(params.edits)
    /\ \E w \in WriteOutcomes(file, current_content) :
          /\ file' = w.file
          /\ ToolReturn(IF w.ok THEN ToolOk(Sum(edit_results), edit_results)
                        ELSE ToolErr("WriteFailed", <<>>))
    /\ writes' = Append(writes, current_content)
    /\ ToolFrame({"file"})

---------------------------------------------------------------------------
(* The calls the model draws *)

\* "", "a", "b", "aa", "ab", "\n", "é"
OldStrings == { <<>>, <<97>>, <<98>>, <<97, 97>>, <<97, 98>>, <<10>>, <<195, 169>> }

\* "", "a", "b", "aa", "\n", "é"
NewStrings == { <<>>, <<97>>, <<98>>, <<97, 97>>, <<10>>, <<195, 169>> }

EditCalls ==
    { EditParams(o, n, ra) : o \in OldStrings, n \in NewStrings, ra \in BOOLEAN }
        \cup { Malformed("edit") }

\* a->b, b->"\n", a->aa (all), é->a, aa->b (all), ""->a, a->a
MultiOperations ==
    { EditOperation(<<97>>, <<98>>, FALSE),
      EditOperation(<<98>>, <<10>>, FALSE),
      EditOperation(<<97>>, <<97, 97>>, TRUE),
      EditOperation(<<195, 169>>, <<97>>, FALSE),
      EditOperation(<<97, 97>>, <<98>>, TRUE),
      EditOperation(<<>>, <<97>>, FALSE),
      EditOperation(<<97>>, <<97>>, FALSE) }

\* n operations that undo each other in turn: a->b, b->a, a->b, ..
Alternating(n) ==
    [k \in 1..n |-> IF k % 2 = 1 THEN EditOperation(<<97>>, <<98>>, FALSE)
                    ELSE EditOperation(<<98>>, <<97>>, FALSE)]

\* Lists at the limit of validate_edits: 50 valid operations, 51 valid
\* operations, and 50 operations of which the last is a no-op
LongLists ==
    { Alternating(MAX_EDITS_PER_CALL),
      Alternating(MAX_EDITS_PER_CALL + 1),
      [Alternating(MAX_EDITS_PER_CALL) EXCEPT
          ![MAX_EDITS_PER_CALL] = EditOperation(<<97>>, <<97>>, FALSE)] }

MultiEditCalls ==
    { MultiEditParams(es) :
        es \in UNION { [1..n -> MultiOperations] : n \in 0..MaxEdits } \cup LongLists }
        \cup { Malformed("multi_edit") }

Files == { RegularFile(c) : c \in TextsUpTo(MaxContentLen) } \cup { Missing, Directory }

\* No capability call is being looked at
EditIdle ==
    /\ file = Missing
    /\ file_at_call = Missing
    /\ params = Malformed("none")
    /\ tool_pc = "idle"
    /\ original_content = <<>>
    /\ matches = <<>>
    /\ new_content = <<>>
    /\ current_content = <<>>
    /\ edit_index = 0
    /\ edit_results = <<>>
    /\ applied = <<>>
    /\ tool_result = Running
    /\ writes = <<>>

---------------------------------------------------------------------------
(* The compactor between a batch and the conversation:                      *)
(* execute_tools_with_context_management (claude.rs:89-97) and the loop     *)
(* that pushes the tool_result messages (claude.rs:213-221)                 *)

\* How far past a threshold the results of the model go
MaxOver == 1

\* s repeated n times
RECURSIVE Rep(_, _)
Rep(s, n) ==
    IF n <= 0 THEN ""
    ELSE IF n = 1 THEN s
    ELSE Rep(s, n \div 2) \o Rep(s, n - (n \div 2))

\* n lines `line`, the last without a line ending
LinesOf(line, n) == IF n <= 0 THEN "" ELSE Rep(line \o "\n", n - 1) \o line

Thresholds == {GREP_TRUNCATE_THRESHOLD, LIST_TRUNCATE_THRESHOLD, READ_TRUNCATE_THRESHOLD}

\* Line k of a search result: its source (one of three), ":", what matched;
\* every fourth line names no source
NumberedLine(k) ==
    IF k % 4 = 0 THEN "n" \o ToString(k)
    ELSE <<"a", "b", "c">>[(k % 3) + 1] \o ":" \o ToString(k) \o ":x"

\* Lines lo..hi of it, each but the last with a line ending
RECURSIVE Numbered(_, _)
Numbered(lo, hi) ==
    IF lo > hi THEN ""
    ELSE IF lo = hi THEN NumberedLine(lo)
    ELSE LET mid == (lo + hi) \div 2
         IN Numbered(lo, mid) \o "\n" \o Numbered(mid + 1, hi)

\* Line counts around the thresholds of the windowed summaries and around
\* the sizes of their windows: take(50), and take(50) with the last 10
WindowedSizes == {GREP_TRUNCATE_THRESHOLD, LIST_TRUNCATE_THRESHOLD, 50, 50 + 10}

\* Results around each line threshold (some ending in a line ending), and
\* results around the flat cap: one-byte characters only, two-byte characters
\* with the cap between two of them, and with the cap inside one
RawOutputs ==
    { LinesOf("f:x", t + d) : t \in Thresholds, d \in (-MaxOver)..MaxOver }
        \cup { LinesOf("f:x", t) \o "\n" : t \in Thresholds }
        \cup { "", "a", "\n", "a\r\nb\r" }
        \cup { Rep("a", TOOL_OUTPUT_LIMIT + d) : d \in (-MaxOver)..MaxOver }
        \cup { Rep("<>", TOOL_OUTPUT_LIMIT \div 2) \o Rep("a", d) : d \in 1..MaxOver }
        \cup { "a" \o Rep("<>", TOOL_OUTPUT_LIMIT \div 2) \o Rep("a", d - 1) : d \in 1..MaxOver }
        \cup { LinesOf(Rep("x", 20), READ_TRUNCATE_THRESHOLD + d) : d \in 1..MaxOver }
        \cup { Numbered(1, t + d) : t \in WindowedSizes, d \in (-MaxOver)..MaxOver }
        \cup { Numbered(1, READ_TRUNCATE_THRESHOLD + d) : d \in 1..MaxOver }

RawResult(tool_name, output) ==
    [tool_use_id |-> "id1", tool_name |-> tool_name, output |-> output]

CompactorIdle ==
    /\ compact_pc = "idle"
    /\ raw_results = <<>>
    /\ processed_results = <<>>
    /\ fed_back = <<>>

\* `self.context_manager.process_results_locally(raw_results)?`
Compact ==
    /\ compact_pc = "collected"
    /\ processed_results' = process_results_locally(raw_results)
    /\ compact_pc' = "processed"
    /\ UNCHANGED <<raw_results, fed_back, driverVars, editVars, auditVars>>

\* `for (tool_use_id, _tool_name, result) in processed_results.results`: one
\* tool_result message a turn, its content cut by truncate_content
PushToolResult ==
    /\ compact_pc = "processed"
    /\ Len(fed_back) < Len(processed_results)
    /\ LET next_result == processed_results[Len(fed_back) + 1].output IN
       IF truncate_panics(next_result)
       THEN compact_pc' = "panicked" /\ UNCHANGED fed_back
       ELSE /\ fed_back' = Append(fed_back, truncate_content(next_result))
            /\ compact_pc' = IF Len(fed_back) + 1 = Len(processed_results)
                             THEN "fed" ELSE "processed"
    /\ UNCHANGED <<raw_results, processed_results, driverVars, editVars, auditVars>>

---------------------------------------------------------------------------
(* The audit sink across tasks: process_message (lib.rs:70-89) clears it,  *)
(* then every driver and tool of the task stores into it (utils.rs)        *)

\* Tasks one process is given
MaxTasks == 2

\* store_claude_message calls of one task
MaxStores == 2

\* clear_bin_directory: remove bin if it exists (`?`), recreate the two
\* message directories (`?`), then reset the counter.  A remove_dir_all that
\* fails may have removed some files already: `left` is what it leaves
clear_bin_directory(files, counter, exists, remove_ok, create_ok, left) ==
    IF exists /\ ~remove_ok
    THEN [ok |-> FALSE, files |-> left, counter |-> counter, exists |-> TRUE]
    ELSE IF ~create_ok
    THEN [ok |-> FALSE, files |-> {}, counter |-> counter, exists |-> FALSE]
    ELSE [ok |-> TRUE, files |-> {}, counter |-> 1, exists |-> TRUE]

\* The locals of call_claude_api, which the sink does not touch
loopVars == <<variant, script, pc, round, messages, response, tool_calls, futures,
              completed, text_response, last_message, block_index,
              assistant_content_blocks, continue_conversation, executed, outcomes,
              engine_log, result, requests, dispatches>>

\* The agent_type directories the records of a task go to
AgentTypes == {"orchestrator", "file_agent"}

\* process_message: clear_bin_directory, whose error is logged and dropped,
\* then the orchestrator is built and called
ProcessMessage ==
    /\ audit_pc = "idle"
    /\ task_no < MaxTasks
    /\ \E remove_ok \in BOOLEAN, create_ok \in BOOLEAN, left \in SUBSET sink :
          LET cleared == clear_bin_directory(sink, GLOBAL_COUNTER, bin_exists,
                                             remove_ok, create_ok, left)
          IN /\ sink' = cleared.files
             /\ GLOBAL_COUNTER' = cleared.counter
             /\ bin_exists' = cleared.exists
    /\ task_no' = task_no + 1
    /\ task_log' = <<>>
    /\ audit_pc' = "task"
    /\ UNCHANGED <<in_flight, handed, loopVars, editVars,
                   compactorVars>>

\* One store_claude_message of the running task; create_dir_all inside it
\* brings bin back when it is missing
AuditStore ==
    /\ audit_pc = "task"
    /\ Len(task_log) < MaxStores
    /\ \E agent_type \in AgentTypes, io_ok \in BOOLEAN :
          LET st == store_claude_message(sink, GLOBAL_COUNTER, agent_type,
                                         ToString(task_no), io_ok)
          IN /\ sink' = st.files
             /\ GLOBAL_COUNTER' = st.counter
             /\ bin_exists' = (bin_exists \/ st.ok)
    /\ task_log' = Append(task_log, GLOBAL_COUNTER)
    /\ UNCHANGED <<audit_pc, task_no, in_flight, handed, loopVars,
                   editVars, compactorVars>>

\* orchestrator.call(task) has returned: process_message returns
TaskEnd ==
    /\ audit_pc = "task"
    /\ audit_pc' = "idle"
    /\ UNCHANGED <<task_no, bin_exists, task_log, in_flight, handed,
                   GLOBAL_COUNTER, sink, loopVars, editVars, compactorVars>>

\* No task sequence is being looked at: bin is as process_message left it
AuditIdle ==
    /\ audit_pc = "idle"
    /\ task_no = 0
    /\ bin_exists = TRUE
    /\ task_log = <<>>
    /\ in_flight = {}
    /\ handed = <<>>

\* Faulty variant: the counter is read and not advanced
get_next_global_sequence_number_load(counter) ==
    [number |-> counter, counter |-> counter]

\* get_next_global_sequence_number: fetch_add(1), one atomic step that returns
\* the previous value
get_next_global_sequence_number(counter) ==
    [number |-> counter, counter |-> counter + 1]

\* Faulty variant: a task waits until no other task is in flight
MayStartAlone(flying) == flying = {}

\* process_message_sync takes no lock and looks at no other task: whatever
\* thread of the host calls it, process_message runs at once
MayStart(flying) == TRUE

\* process_message up to the call of the orchestrator, for the task that is
\* started next
TaskStart ==
    /\ MayStart(in_flight)
    /\ audit_pc = "idle"
    /\ task_no < MaxTasks
    /\ \E remove_ok \in BOOLEAN, create_ok \in BOOLEAN, left \in SUBSET sink :
          LET cleared == clear_bin_directory(sink, GLOBAL_COUNTER, bin_exists,
                                             remove_ok, create_ok, left)
          IN /\ sink' = cleared.files
             /\ GLOBAL_COUNTER' = cleared.counter
             /\ bin_exists' = cleared.exists
    /\ task_no' = task_no + 1
    /\ in_flight' = in_flight \cup {task_no + 1}
    /\ UNCHANGED <<audit_pc, task_log, handed, loopVars, editVars, compactorVars>>

\* A host that calls process_message_sync again only after it has returned
TaskStartAlone == in_flight = {} /\ TaskStart

\* A host that calls it from two threads: the first task of the process and
\* a second one, which may start while the first is in flight
TaskStartBeside == task_no <= 1 /\ TaskStart

\* The store_claude_message calls of task t so far
HandedTo(t) == { i \in 1..Len(handed) : handed[i].task = t }

\* store_claude_message of task t up to its file name: the sequence number
\* is taken (utils.rs:43)
TakeNumber ==
    /\ \E t \in in_flight, agent_type \in AgentTypes :
          LET next == get_next_global_sequence_number(GLOBAL_COUNTER) IN
          /\ Len(handed) < MaxStores
          /\ GLOBAL_COUNTER' = next.counter
          /\ handed' = Append(handed, [task |-> t, seq |-> next.number,
                                       agent_type |-> agent_type, st |-> "pending"])
    /\ UNCHANGED <<audit_pc, task_no, bin_exists, task_log, in_flight, sink,
                   loopVars, editVars, compactorVars>>

\* The rest of that store_claude_message: create_dir_all and fs::write under
\* the name made of the number (utils.rs:44-50)
WriteRecord ==
    /\ \E i \in 1..Len(handed), io_ok \in BOOLEAN :
          /\ handed[i].st = "pending"
          /\ sink' = IF io_ok
                     THEN WriteFile(sink, handed[i].seq, handed[i].agent_type,
                                    ToString(handed[i].task))
                     ELSE sink
          /\ bin_exists' = (bin_exists \/ io_ok)
          /\ handed' = [handed EXCEPT ![i].st = IF io_ok THEN "written" ELSE "failed"]
    /\ UNCHANGED <<audit_pc, task_no, task_log, in_flight, GLOBAL_COUNTER,
                   loopVars, editVars, compactorVars>>

\* orchestrator.call(task) of task t has returned, every store of it done
TaskReturn ==
    /\ \E t \in in_flight :
          /\ \A i \in HandedTo(t) : handed[i].st # "pending"
          /\ in_flight' = in_flight \ {t}
          /\ handed' = SelectSeq(handed, LAMBDA h : h.task # t)
    /\ UNCHANGED <<audit_pc, task_no, bin_exists, task_log, GLOBAL_COUNTER, sink,
                   loopVars, editVars, compactorVars>>

ToolIdle == EditIdle /\ CompactorIdle /\ AuditIdle

---------------------------------------------------------------------------
(* State *)

FreshFuture(call) ==
    [st |-> "new", ok |-> FALSE, tool_use_id |-> call.tool_use_id,
     tool_name |-> call.name, output |-> ""]

InitCommon ==
    /\ pc = "loop"
    /\ round = 0
    /\ messages = <<Message("user", <<TextBlock(Task)>>)>>
    /\ response = NoContentResponse
    /\ tool_calls = <<>>
    /\ futures = <<>>
    /\ completed = <<>>
    /\ text_response = ""
    /\ last_message = ""
    /\ block_index = 0
    /\ assistant_content_blocks = <<>>
    /\ continue_conversation = FALSE
    /\ executed = <<>>
    /\ outcomes = <<>>
    /\ engine_log = <<>>
    /\ result = NoResult
    /\ requests = 0
    /\ dispatches = 0
    /\ GLOBAL_COUNTER = 1
    /\ sink = {}

\* process_message has cleared the sink and reset the counter; a driver starts
Init ==
    /\ variant \in {"file", "orch"}
    /\ script = FreeEngine
    /\ InitCommon
    /\ ToolIdle

---------------------------------------------------------------------------
(* The round loop: the part of call_claude_api both drivers share *)

Return(r) ==
    /\ pc' = "returned"
    /\ result' = r

\* Faulty variant: the request is retried in the next round
FailRetried(e) ==
    /\ pc' = "loop"
    /\ UNCHANGED result

Fail(e) ==
    /\ pc' = "failed"
    /\ result' = Err(e)

\* Faulty variant: the ceiling is tested with >=
CeilingReachedEarly(r) == r >= max_rounds

\* The round ceiling: `round > max_rounds` after `round += 1`
CeilingReached(r) == r > max_rounds

\* Top of the loop: count the round, stop at the ceiling, else send the request
NextRound ==
    /\ pc = "loop"
    /\ round' = round + 1
    /\ IF CeilingReached(round + 1)
       THEN /\ Return(AfterLoop(variant, last_message))
            /\ UNCHANGED requests
       ELSE /\ pc' = "awaiting"
            /\ requests' = requests + 1
            /\ UNCHANGED result
    /\ UNCHANGED <<variant, script, messages, response, tool_calls, futures,
                   completed, text_response, last_message, block_index,
                   assistant_content_blocks, continue_conversation, executed,
                   outcomes, engine_log, dispatches, GLOBAL_COUNTER, sink>>
    /\ UNCHANGED toolVars

TransportErrors == {"send error", "Claude API error", "unreadable body"}

\* send() fails, the status is not a success, or the body is not JSON: `?`
\* and `return Err(..)` leave call_claude_api
TransportFailure ==
    /\ pc = "awaiting"
    /\ script = FreeEngine
    /\ \E kind \in TransportErrors :
          /\ Fail(kind)
          /\ engine_log' = Append(engine_log, [failure |-> kind, response |-> NoContentResponse])
    /\ UNCHANGED <<variant, script, round, messages, response, tool_calls,
                   futures, completed, text_response, last_message, block_index,
                   assistant_content_blocks, continue_conversation, executed,
                   outcomes, requests, dispatches, GLOBAL_COUNTER, sink>>
    /\ UNCHANGED toolVars

\* file driver, after the response is stored: parse it, then dispatch, return
\* the text, or break
FileOnResponse(resp) ==
    LET calls == ParseToolCalls(resp.content)
        text == ParseTextResponse(resp.content)
    IN
    /\ tool_calls' = calls
    /\ text_response' = text
    /\ futures' = [k \in 1..Len(calls) |-> FreshFuture(calls[k])]
    /\ completed' = <<>>
    /\ IF resp.has_content /\ Len(calls) > 0
       THEN pc' = "dispatching" /\ UNCHANGED result
       ELSE IF resp.has_content /\ text # ""
            THEN Return(Ok(text))
            ELSE Return(AfterLoop(variant, last_message))
    /\ UNCHANGED <<last_message, block_index, assistant_content_blocks,
                   continue_conversation>>

\* orchestration driver, after the response is stored: walk the content
\* array; without one the loop body ends and the next round starts
OrchOnResponse(resp) ==
    /\ pc' = IF resp.has_content THEN "orch_blocks" ELSE "loop"
    /\ block_index' = 1
    /\ assistant_content_blocks' = <<>>
    /\ continue_conversation' = FALSE
    /\ UNCHANGED <<result, tool_calls, futures, completed, text_response,
                   last_message>>

\* The response arrives and is stored in the audit sink (`?`: a failed write
\* leaves call_claude_api with the error), then it is processed
OnResponse(resp, io_ok) ==
    LET st == store_claude_message(sink, GLOBAL_COUNTER, DriverName(variant),
                                   "response", io_ok)
    IN
    /\ pc = "awaiting"
    /\ response' = resp
    /\ engine_log' = Append(engine_log, [failure |-> "", response |-> resp])
    /\ GLOBAL_COUNTER' = st.counter
    /\ sink' = st.files
    /\ IF ~st.ok
       THEN /\ Fail("audit sink error")
            /\ UNCHANGED <<tool_calls, futures, completed, text_response,
                           last_message, block_index, assistant_content_blocks,
                           continue_conversation>>
       ELSE IF variant = "file" THEN FileOnResponse(resp) ELSE OrchOnResponse(resp)
    /\ UNCHANGED <<variant, script, round, messages, executed, outcomes, requests,
                   dispatches>>

\* A free engine answers with any response of EngineResponses
Respond ==
    /\ script = FreeEngine
    /\ requests <= MaxAnswered
    /\ \E resp \in EngineResponses, io_ok \in BOOLEAN :
          /\ Len(executed) + NumCalls(variant, resp) <= MaxCalls
          /\ OnResponse(resp, io_ok)
    /\ UNCHANGED toolVars

\* A scripted engine answers request k with the k-th response of its cycle
RespondScripted ==
    /\ script # FreeEngine
    /\ OnResponse(ResponseOf(script.responses[((requests - 1) % Len(script.responses)) + 1]),
                  TRUE)
    /\ UNCHANGED toolVars

---------------------------------------------------------------------------
(* Tool dispatcher of the file driver: execute_tools_parallel *)

\* Faulty variant: an unknown name is reported as an error of the future
ToolNotFoundAsErr(call) == [ok |-> FALSE, output |-> "Tool not found: " \o call.name]

\* The else branch of execute_single_tool_with_id: Ok((id, name, sentinel))
ToolNotFound(call) == [ok |-> TRUE, output |-> "Tool not found: " \o call.name]

AllStarted(futs, i) == \A j \in 1..(i - 1) : futs[j].st # "new"

\* execute_single_tool_with_id up to tool.execute(..).await: join_all polls the
\* futures of the batch in order; an unknown name completes at once
StartCall(i) ==
    /\ pc = "dispatching"
    /\ i \in 1..Len(futures)
    /\ futures[i].st = "new"
    /\ AllStarted(futures, i)
    /\ IF tool_calls[i].name \in Registry(variant)
       THEN /\ futures' = [futures EXCEPT ![i].st = "running"]
            /\ executed' = Append(executed, <<round, tool_calls[i].tool_use_id>>)
            /\ UNCHANGED completed
       ELSE /\ futures' = [futures EXCEPT ![i].st = "done",
                              ![i].ok = ToolNotFound(tool_calls[i]).ok,
                              ![i].output = ToolNotFound(tool_calls[i]).output]
            /\ completed' = Append(completed, i)
            /\ UNCHANGED executed
    /\ UNCHANGED <<variant, script, pc, round, messages, response, tool_calls,
                   text_response, last_message, block_index,
                   assistant_content_blocks, continue_conversation, outcomes,
                   engine_log, result, requests, dispatches, GLOBAL_COUNTER, sink>>
    /\ UNCHANGED toolVars

\* Faulty variant: the executor's error is propagated with `?`
CallOutcomePropagated(exec, io_ok) ==
    [ok |-> exec.ok /\ io_ok, output |-> exec.value]

\* The outcome of one future: Ok((id, name, output)) or Err(e)
CallOutcome(exec, io_ok) ==
    IF exec.ok
    THEN [ok |-> io_ok, output |-> exec.value]
    ELSE [ok |-> TRUE, output |-> "Tool execution failed: " \o exec.value]

\* tool.execute returned exec; a success is stored in the audit sink (`?`)
FinishWith(i, exec, io_ok) ==
    LET st == store_claude_message(sink, GLOBAL_COUNTER, tool_calls[i].name,
                                   tool_calls[i].tool_use_id, io_ok)
        out == CallOutcome(exec, io_ok)
    IN
    /\ pc = "dispatching"
    /\ i \in 1..Len(futures)
    /\ futures[i].st = "running"
    /\ futures' = [futures EXCEPT ![i].st = "done", ![i].ok = out.ok,
                                  ![i].output = out.output]
    /\ completed' = Append(completed, i)
    /\ GLOBAL_COUNTER' = IF exec.ok THEN st.counter ELSE GLOBAL_COUNTER
    /\ sink' = IF exec.ok THEN st.files ELSE sink
    /\ outcomes' = Append(outcomes, [round |-> round, id |-> tool_calls[i].tool_use_id,
                                     exec |-> exec, stored |-> exec.ok /\ io_ok])
    /\ UNCHANGED <<variant, script, pc, round, messages, response, tool_calls,
                   text_response, last_message, block_index,
                   assistant_content_blocks, continue_conversation, executed,
                   engine_log, result, requests, dispatches>>

ExecOutcomes == { Ok(o) : o \in ToolOutputs } \cup { Err(e) : e \in ToolErrors }

FinishCall(i) ==
    /\ script = FreeEngine
    /\ \E exec \in ExecOutcomes, io_ok \in BOOLEAN : FinishWith(i, exec, io_ok)
    /\ UNCHANGED toolVars

\* Under a scripted engine every executor answers alike and the sink works
FinishCallScripted(i) ==
    /\ script # FreeEngine
    /\ FinishWith(i, IF script.outcome = "ok" THEN Ok("out") ELSE Err("boom"), TRUE)
    /\ UNCHANGED toolVars

\* What becomes of the other futures of join_all when one poll panics: the
\* unwinding drops JoinAll and every future that is not complete
AfterPanic(futs, i) ==
    [k \in 1..Len(futs) |->
        IF k = i THEN [futs[k] EXCEPT !.st = "panicked"]
        ELSE IF futs[k].st = "done" THEN futs[k]
        ELSE [futs[k] EXCEPT !.st = "dropped"]]

\* tool.execute panics (an index out of range, a slice off a char boundary):
\* nothing between the executor and the caller of the driver catches it
PanicCall(i) ==
    /\ pc = "dispatching"
    /\ script = FreeEngine
    /\ i \in 1..Len(futures)
    /\ futures[i].st = "running"
    /\ futures' = AfterPanic(futures, i)
    /\ pc' = "panicked"
    /\ UNCHANGED <<variant, script, round, messages, response, tool_calls,
                   completed, text_response, last_message, block_index,
                   assistant_content_blocks, continue_conversation, executed,
                   outcomes, engine_log, result, requests, dispatches,
                   GLOBAL_COUNTER, sink>>
    /\ UNCHANGED toolVars

\* Faulty variant: the outputs in the order in which the futures completed
join_all_unordered(futs, order) == [k \in 1..Len(futs) |-> futs[order[k]]]

\* join_all: the outputs of the futures, in the order of the futures
join_all(futs, order) == [k \in 1..Len(futs) |-> futs[k]]

\* The loop after join_all: every Ok is pushed, an Err is logged and skipped
CollectResults(outs) == SelectSeq(outs, LAMBDA f : f.ok)

\* What execute_tools_parallel returns once every future is complete
execute_tools_parallel(futs, order) == CollectResults(join_all(futs, order))

ToolResultMessage(id, content) == Message("user", <<ToolResultBlock(id, content)>>)

\* The messages one round of the file driver appends: the assistant message,
\* then a tool_result message for each processed result
FeedBack(content, processed) ==
    <<Message("assistant", content)>> \o
    [k \in 1..Len(processed) |->
        ToolResultMessage(processed[k].tool_use_id,
                          truncate_content(processed[k].output))]

\* join_all is ready: collect, compact, append to the conversation, `continue`
JoinAll ==
    /\ pc = "dispatching"
    /\ \A k \in 1..Len(futures) : futures[k].st = "done"
    /\ LET collected == execute_tools_parallel(futures, completed)
           processed == process_results_locally(collected)
       IN IF \E k \in 1..Len(processed) : truncate_panics(processed[k].output)
          THEN pc' = "panicked" /\ UNCHANGED <<messages, dispatches>>
          ELSE /\ messages' = messages \o FeedBack(response.content, processed)
               /\ dispatches' = dispatches + 1
               /\ pc' = "loop"
    /\ UNCHANGED <<variant, script, round, response, tool_calls, futures,
                   completed, text_response, last_message, block_index,
                   assistant_content_blocks, continue_conversation, executed,
                   outcomes, engine_log, result, requests, GLOBAL_COUNTER, sink>>
    /\ UNCHANGED toolVars

---------------------------------------------------------------------------
(* Orchestration driver: the loop over the content array *)

\* The two messages pushed after each agent call: the blocks copied so far
\* as the assistant message, then the agent's result
AgentFeedBack(blocks, id, agent_result) ==
    <<Message("assistant", blocks), ToolResultMessage(id, agent_result)>>

\* The result text for a name that agent_map does not hold
AgentNotFound(agent_name) == "Agent not found: " \o agent_name

\* The result text of an agent call that has returned
AgentResult(exec) ==
    IF exec.ok THEN exec.value ELSE "Agent execution failed: " \o exec.value

\* One content element: copy it, then call the agent it names, or remember
\* its text
OrchBlock ==
    /\ pc = "orch_blocks"
    /\ block_index <= Len(response.content)
    /\ LET b == response.content[block_index]
           blocks == Append(assistant_content_blocks, b)
       IN
       /\ assistant_content_blocks' = blocks
       /\ IF IsAgentCall(b) /\ b.name \in Registry(variant) /\ b.input.task # Absent
          THEN \* agent.execute(agent_task).await
               /\ pc' = "orch_agent"
               /\ executed' = Append(executed, <<round, b.id>>)
               /\ UNCHANGED <<messages, continue_conversation, block_index,
                              last_message>>
          ELSE IF IsAgentCall(b)
          THEN /\ messages' = messages \o AgentFeedBack(blocks, b.id,
                      IF b.name \in Registry(variant)
                      THEN "No task provided to agent"
                      ELSE AgentNotFound(b.name))
               /\ continue_conversation' = TRUE
               /\ block_index' = block_index + 1
               /\ UNCHANGED <<pc, executed, last_message>>
          ELSE /\ last_message' = IF b.type = "text" /\ b.text # Absent
                                  THEN b.text ELSE last_message
               /\ block_index' = block_index + 1
               /\ UNCHANGED <<pc, executed, messages, continue_conversation>>
    /\ UNCHANGED <<variant, script, round, response, tool_calls, futures,
                   completed, text_response, outcomes, engine_log, result,
                   requests, dispatches, GLOBAL_COUNTER, sink>>
    /\ UNCHANGED toolVars

\* agent.execute returned exec.  The agent is a driver of its own: when it
\* answers Ok it has stored an engine response in the audit sink
AgentFinishWith(exec) ==
    LET b == response.content[block_index]
        st == store_claude_message(sink, GLOBAL_COUNTER, b.name, "response", TRUE)
    IN
    /\ pc = "orch_agent"
    /\ messages' = messages \o AgentFeedBack(assistant_content_blocks, b.id,
                                             AgentResult(exec))
    /\ continue_conversation' = TRUE
    /\ block_index' = block_index + 1
    /\ pc' = "orch_blocks"
    /\ GLOBAL_COUNTER' = IF exec.ok THEN st.counter ELSE GLOBAL_COUNTER
    /\ sink' = IF exec.ok THEN st.files ELSE sink
    /\ outcomes' = Append(outcomes, [round |-> round, id |-> b.id, exec |-> exec,
                                     stored |-> FALSE])
    /\ UNCHANGED <<variant, script, round, response, tool_calls, futures,
                   completed, text_response, last_message,
                   assistant_content_blocks, executed, engine_log, result,
                   requests, dispatches>>

AgentFinish ==
    /\ script = FreeEngine
    /\ \E exec \in ExecOutcomes : AgentFinishWith(exec)
    /\ UNCHANGED toolVars

AgentFinishScripted ==
    /\ script # FreeEngine
    /\ AgentFinishWith(IF script.outcome = "ok" THEN Ok("out") ELSE Err("boom"))
    /\ UNCHANGED toolVars

\* agent.execute panics: the panic unwinds call_claude_api
AgentPanic ==
    /\ pc = "orch_agent"
    /\ script = FreeEngine
    /\ pc' = "panicked"
    /\ UNCHANGED <<variant, script, round, messages, response, tool_calls,
                   futures, completed, text_response, last_message, block_index,
                   assistant_content_blocks, continue_conversation, executed,
                   outcomes, engine_log, result, requests, dispatches,
                   GLOBAL_COUNTER, sink>>
    /\ UNCHANGED toolVars

\* After the last content element: `continue` if an agent was called, else break
OrchEndBlocks ==
    /\ pc = "orch_blocks"
    /\ block_index > Len(response.content)
    /\ IF continue_conversation
       THEN /\ pc' = "loop"
            /\ dispatches' = dispatches + 1
            /\ UNCHANGED result
       ELSE /\ Return(AfterLoop(variant, last_message))
            /\ UNCHANGED dispatches
    /\ UNCHANGED <<variant, script, round, messages, response, tool_calls,
                   futures, completed, text_response, last_message, block_index,
                   assistant_content_blocks, continue_conversation, executed,
                   outcomes, engine_log, requests, GLOBAL_COUNTER, sink>>
    /\ UNCHANGED toolVars

---------------------------------------------------------------------------
(* Specifications *)

CallIndex == 1..3

Next ==
    \/ NextRound
    \/ TransportFailure
    \/ Respond
    \/ \E i \in CallIndex : StartCall(i)
    \/ \E i \in CallIndex : FinishCall(i)
    \/ \E i \in CallIndex : PanicCall(i)
    \/ JoinAll
    \/ OrchBlock
    \/ AgentFinish
    \/ AgentPanic
    \/ OrchEndBlocks

\* Every behaviour of either driver with a free engine
Spec == Init /\ [][Next]_vars

\* A scripted engine: two tool-calling responses, answered in turn for ever
InitCeiling ==
    /\ variant \in {"file", "orch"}
    /\ script \in [responses : ScriptContents(variant) \X ScriptContents(variant),
                   outcome : {"ok", "err"}]
    /\ InitCommon
    /\ ToolIdle

NextCeiling ==
    \/ NextRound
    \/ RespondScripted
    \/ \E i \in CallIndex : StartCall(i)
    \/ \E i \in CallIndex : FinishCallScripted(i)
    \/ JoinAll
    \/ OrchBlock
    \/ AgentFinishScripted
    \/ OrchEndBlocks

\* Every behaviour of either driver with an engine that always calls a tool
SpecCeiling == InitCeiling /\ [][NextCeiling]_vars

\* One call of edit or multi_edit on one file
InitEdit ==
    /\ variant = "file"
    /\ script = FreeEngine
    /\ InitCommon
    /\ CompactorIdle
    /\ AuditIdle
    /\ file \in Files
    /\ file_at_call = file
    /\ params \in EditCalls \cup MultiEditCalls
    /\ tool_pc = "called"
    /\ original_content = <<>>
    /\ matches = <<>>
    /\ new_content = <<>>
    /\ current_content = <<>>
    /\ edit_index = 0
    /\ edit_results = <<>>
    /\ applied = <<>>
    /\ tool_result = Running
    /\ writes = <<>>

NextEdit ==
    \/ EditValidate
    \/ EditRead
    \/ EditScan
    \/ EditReplace
    \/ EditValidateResult
    \/ EditWrite
    \/ MultiValidate
    \/ MultiRead
    \/ MultiApply
    \/ MultiWrite

\* Every behaviour of one edit or multi_edit call
SpecEdit == InitEdit /\ [][NextEdit]_vars

\* One result of one tool on its way into the conversation
InitCompactor ==
    /\ variant = "file"
    /\ script = FreeEngine
    /\ InitCommon
    /\ EditIdle
    /\ AuditIdle
    /\ compact_pc = "collected"
    /\ raw_results \in { <<RawResult(t, o)>> : t \in FileTools, o \in RawOutputs }
    /\ processed_results = <<>>
    /\ fed_back = <<>>

NextCompactor ==
    \/ Compact
    \/ PushToolResult

\* Every behaviour of the compactor on one result
SpecCompactor == InitCompactor /\ [][NextCompactor]_vars

\* What an earlier process may have left under bin/messages
StaleSinks ==
    { {}, { [seq |-> 1, agent_type |-> "orchestrator", what |-> "0"] },
      { [seq |-> 1, agent_type |-> "orchestrator", what |-> "0"],
        [seq |-> 2, agent_type |-> "file_agent", what |-> "0"] } }

\* A process starts: GLOBAL_COUNTER has its static initializer and bin holds
\* what an earlier process left
InitAudit ==
    /\ variant = "orch"
    /\ script = FreeEngine
    /\ pc = "loop"
    /\ round = 0
    /\ messages = <<Message("user", <<TextBlock(Task)>>)>>
    /\ response = NoContentResponse
    /\ tool_calls = <<>>
    /\ futures = <<>>
    /\ completed = <<>>
    /\ text_response = ""
    /\ last_message = ""
    /\ block_index = 0
    /\ assistant_content_blocks = <<>>
    /\ continue_conversation = FALSE
    /\ executed = <<>>
    /\ outcomes = <<>>
    /\ engine_log = <<>>
    /\ result = NoResult
    /\ requests = 0
    /\ dispatches = 0
    /\ GLOBAL_COUNTER = 1
    /\ sink \in StaleSinks
    /\ bin_exists \in { e \in BOOLEAN : sink # {} => e }
    /\ EditIdle
    /\ CompactorIdle
    /\ audit_pc = "idle"
    /\ task_no = 0
    /\ task_log = <<>>
    /\ in_flight = {}
    /\ handed = <<>>

NextAudit ==
    \/ ProcessMessage
    \/ AuditStore
    \/ TaskEnd

\* Every sequence of tasks one process serves, seen from the audit sink
SpecAudit == InitAudit /\ [][NextAudit]_vars

NextOneTask ==
    \/ TaskStartAlone
    \/ TakeNumber
    \/ WriteRecord
    \/ TaskReturn

\* The tasks of one process, one at a time, the stores of a task interleaved
SpecOneTask == InitAudit /\ [][NextOneTask]_vars

NextTasks ==
    \/ TaskStartBeside
    \/ TakeNumber
    \/ WriteRecord
    \/ TaskReturn

\* The tasks of one process when the host starts them on several threads
SpecTasks == InitAudit /\ [][NextTasks]_vars

\* Texts an executor or a sub-agent may return: short, at the flat cap, past
\* it, and twice as long
LongOutputs ==
    { "out", Rep("a", TOOL_OUTPUT_LIMIT), Rep("a", 2 * TOOL_OUTPUT_LIMIT) }
        \cup { Rep("a", TOOL_OUTPUT_LIMIT + d) : d \in 1..MaxOver }
        \cup { LinesOf("f:x", GREP_TRUNCATE_THRESHOLD + d) : d \in 1..MaxOver }

\* Capabilities whose results the scripted engine of SpecLong asks for
LongTools(v) == IF v = "file" THEN {"read", "grep", "ls", "bash"} ELSE OrchestratorAgents

\* tool.execute returned one of LongOutputs and the sink works
FinishCallLong(i) ==
    /\ script.outcome = "long"
    /\ \E o \in LongOutputs : FinishWith(i, Ok(o), TRUE)
    /\ UNCHANGED toolVars

\* agent.execute returned one of LongOutputs
AgentFinishLong ==
    /\ script.outcome = "long"
    /\ \E o \in LongOutputs : AgentFinishWith(Ok(o))
    /\ UNCHANGED toolVars

\* A scripted engine that calls one capability, then answers with text
InitLong ==
    /\ variant \in {"file", "orch"}
    /\ script \in { [responses |-> << <<ToolUse(n, "id1", "t1")>>, <<TextBlock("A")>> >>,
                     outcome |-> "long"] : n \in LongTools(variant) }
    /\ InitCommon
    /\ ToolIdle

NextLong ==
    \/ NextRound
    \/ RespondScripted
    \/ \E i \in CallIndex : StartCall(i)
    \/ \E i \in CallIndex : FinishCallLong(i)
    \/ JoinAll
    \/ OrchBlock
    \/ AgentFinishLong
    \/ OrchEndBlocks

\* Every behaviour of either driver on one call that returns a long text
SpecLong == InitLong /\ [][NextLong]_vars

---------------------------------------------------------------------------
(* Observations used by the properties *)

Range(seq) == { seq[k] : k \in 1..Len(seq) }

Last(seq) == seq[Len(seq)]

\* The round whose response was processed last
LastRound == IF pc = "awaiting" THEN round - 1 ELSE round

\* The ToolCall blocks of a content array, in the order the engine issued them
CallBlocks(content) == SelectSeq(content, IsFileToolCall)

HasToolCalls(resp) == resp.has_content /\ CallBlocks(resp.content) # <<>>

\* The texts of the Text blocks of a content array, in order
TextsOf(content) ==
    LET blocks == SelectSeq(content, LAMBDA b : b.type = "text" /\ b.text # Absent)
    IN [k \in 1..Len(blocks) |-> blocks[k].text]

\* The texts of every Text block the engine has sent in this task, in order
RECURSIVE TextsIn(_)
TextsIn(log) ==
    IF Len(log) = 0 THEN <<>>
    ELSE TextsIn(SubSeq(log, 1, Len(log) - 1)) \o TextsOf(Last(log).response.content)

TextsSeen == TextsIn(engine_log)

\* A round has ended with `continue`: its results are in the conversation
RoundFedBack ==
    /\ pc \in {"loop", "awaiting"}
    /\ LastRound >= 1
    /\ response.has_content

\* Index of the last assistant message of the conversation (0 if none)
LastAssistant ==
    LET idx == { k \in 1..Len(messages) : messages[k].role = "assistant" }
    IN IF idx = {} THEN 0 ELSE CHOOSE k \in idx : \A j \in idx : j <= k

\* The messages the last round appended: the file driver appends one assistant
\* message and the results, the orchestration driver two messages for each call
RoundTail ==
    IF variant = "file" THEN SubSeq(messages, LastAssistant, Len(messages))
    ELSE SubSeq(messages, Len(messages) - 2 * Len(CallBlocks(response.content)) + 1,
                Len(messages))

\* The tool_result blocks the last round appended, in conversation order
RoundResults ==
    LET users == SelectSeq(RoundTail, LAMBDA m : m.role = "user")
    IN [k \in 1..Len(users) |-> users[k].content[1]]

\* The correlation ids of the last response's calls, in issue order
IssueIds ==
    LET calls == CallBlocks(response.content)
    IN [k \in 1..Len(calls) |-> calls[k].id]

\* file driver: the ids of the calls whose future ended with Ok
ReturnedIds == { futures[k].tool_use_id : k \in { j \in 1..Len(futures) : futures[j].ok } }

AllDone == Len(futures) > 0 /\ \A k \in 1..Len(futures) : futures[k].st = "done"

NotFoundSentinel(name) ==
    IF variant = "file" THEN "Tool not found: " \o name ELSE "Agent not found: " \o name

FailedSentinel(msg) ==
    IF variant = "file" THEN "Tool execution failed: " \o msg
    ELSE "Agent execution failed: " \o msg

\* The engine's last answer was a transport failure
TransportFailed == engine_log # <<>> /\ Last(engine_log).failure # ""

\* No step leads from a dispatch to an error return of the driver
DispatchNeverFails ==
    pc \in {"dispatching", "orch_blocks", "orch_agent"} => pc' # "failed"

---------------------------------------------------------------------------
(* Properties *)

\* C1: when every call of a batch is complete, execute_tools_parallel returns
\* one result per call: as many results as calls, the i-th one carrying the
\* correlation id and the capability name of the i-th call, whatever the
\* outcome of each call (also when the audit write of a call failed).
C1_OneResultPerCall ==
    (pc = "dispatching" /\ AllDone) =>
        LET results == execute_tools_parallel(futures, completed) IN
        /\ Len(results) = Len(tool_calls)
        /\ \A k \in 1..Len(tool_calls) :
              /\ results[k].tool_use_id = tool_calls[k].tool_use_id
              /\ results[k].tool_name = tool_calls[k].name

\* C2: the tool_result messages a round appends to the conversation are in
\* call-issue order, whatever order the calls completed in: their ids are the
\* ids of the response's ToolCall blocks for which the dispatcher returned a
\* result, in the order of the blocks.
C2_IssueOrder ==
    RoundFedBack =>
        [k \in 1..Len(RoundResults) |-> RoundResults[k].tool_use_id]
            = IF variant = "file"
              THEN SelectSeq(IssueIds, LAMBDA id : id \in ReturnedIds)
              ELSE IssueIds

\* C2 witness: three calls were issued, the second completed first, and the
\* results of all three are in the conversation
C2_Witness ==
    /\ RoundFedBack
    /\ variant = "file"
    /\ Len(IssueIds) = 3
    /\ completed[1] = 2
    /\ Len(RoundResults) = 3

\* C3: a call that fails or panics does not keep its siblings from completing:
\* no future of a batch is dropped before it is complete, none ends without a
\* ToolResult, and the dispatch never ends in a panic.
C3_FailureIsolated ==
    /\ pc # "panicked"
    /\ \A k \in 1..Len(futures) : futures[k].st \in {"new", "running", "done"}

\* C4: for a ToolCall whose name is not in the registry no executor is ever
\* invoked; once the round is fed back the conversation holds a tool_result
\* with the call's id and the "not found" sentinel naming the capability, and
\* no step of the dispatch makes the driver return an error.
C4_NotFoundInv ==
    /\ \A e \in Range(executed) :
          \E b \in Range(CallBlocks(engine_log[e[1]].response.content)) :
             b.id = e[2] /\ b.name \in Registry(variant)
    /\ RoundFedBack =>
          \A b \in Range(CallBlocks(response.content)) :
             b.name \notin Registry(variant) =>
                ToolResultBlock(b.id, NotFoundSentinel(b.name)) \in Range(RoundResults)

\* C4: the invariant above in every state, and no step of a dispatch (unknown
\* capability or not) takes the driver to an error return.
C4_NotFound == []C4_NotFoundInv /\ [][DispatchNeverFails]_vars

\* C4 witness: the next request is out after a batch with an unknown capability
\* and a registered sibling that was executed
C4_Witness ==
    /\ RoundFedBack
    /\ pc = "awaiting"
    /\ \E b \in Range(CallBlocks(response.content)) : b.name \notin Registry(variant)
    /\ \E e \in Range(executed) : e[1] = LastRound

\* C5: when an executor returns an error the driver does not fail: once the
\* round is fed back the conversation holds a tool_result with the call's id
\* and the "execution failed: <message>" sentinel, and no step of the
\* dispatch makes the driver return an error.
C5_ExecFailedInv ==
    RoundFedBack =>
        \A o \in Range(outcomes) :
           (o.round = LastRound /\ ~o.exec.ok) =>
              ToolResultBlock(o.id, FailedSentinel(o.exec.value)) \in Range(RoundResults)

\* C5: the invariant above in every state, and no step of a dispatch (failed
\* executor or not) takes the driver to an error return.
C5_ExecFailed == []C5_ExecFailedInv /\ [][DispatchNeverFails]_vars

\* C5 witness: the next request is out after a round in which an executor failed
C5_Witness ==
    /\ RoundFedBack
    /\ pc = "awaiting"
    /\ \E o \in Range(outcomes) : o.round = LastRound /\ ~o.exec.ok

TextOrCompleted ==
    LET here == TextsOf(response.content) IN
    IF variant = "file"
    THEN IF here # <<>> /\ Last(here) # "" THEN Ok(Last(here)) ELSE Ok(TaskCompleted)
    ELSE IF TextsSeen # <<>> /\ ~TrimIsEmpty(Last(TextsSeen))
         THEN Ok(Last(TextsSeen)) ELSE Ok(TaskCompleted)

C7_RoundCeiling ==
    /\ requests <= max_rounds
    /\ pc = "returned" =>
          /\ requests = max_rounds
          /\ dispatches = max_rounds
          /\ Len(engine_log) = max_rounds
          /\ (variant = "file" \/ TextsSeen = <<>>) => result = Ok(TaskCompleted)

\* C7 witness: the driver has returned at the ceiling, no text was ever sent
C7_Witness ==
    /\ pc = "returned"
    /\ round = max_rounds + 1
    /\ TextsSeen = <<>>
    /\ result = Ok(TaskCompleted)

\* C8: when the round ceiling ends the task, the result is the last Text block
\* seen in any round if any text was seen, and the generic completion string
\* only if none was seen.
C8_LastTextAtCeiling ==
    (pc = "returned" /\ round > max_rounds) =>
        result = IF TextsSeen # <<>> THEN Ok(Last(TextsSeen)) ELSE Ok(TaskCompleted)

\* C9: after a transport failure of an engine request the driver has returned
\* an error: it is in no other position, the failed request is the last one
\* it sent, no executor was invoked after it, and no text is returned.
C9_TransportFatal ==
    TransportFailed =>
        /\ pc = "failed"
        /\ ~result.ok
        /\ result.value \in TransportErrors
        /\ requests = Len(engine_log)
        /\ \A e \in Range(executed) : e[1] < Len(engine_log)

\* C9 witness: the second request failed, after a round that ran an executor
C9_Witness ==
    /\ TransportFailed
    /\ Len(engine_log) = 2
    /\ executed # <<>>
    /\ pc = "failed"

\* C10: when the request of round N+1 is out, every call of round N is
\* complete (none is running) and the result of every call of round N is in
\* the conversation.
C10_RoundSynchronous ==
    (pc = "awaiting" /\ round > 1 /\ response.has_content) =>
        /\ \A k \in 1..Len(futures) : futures[k].st = "done"
        /\ \A id \in Range(IssueIds) :
              \E r \in Range(RoundResults) : r.tool_use_id = id

---------------------------------------------------------------------------
(* Observations of a call of the text mutation engine *)

\* The offsets at which `pattern` occurs in `text`
Occurrences(text, pattern) ==
    { p \in 0..(Len(text) - Len(pattern)) : Slice(text, p, p + Len(pattern)) = pattern }

\* The 1-based number of the line that holds offset p
LineAt(text, p) == 1 + Cardinality({ q \in 0..(p - 1) : text[q + 1] = 10 })

\* The elements of a set of numbers, in increasing order
RECURSIVE Ascending(_)
Ascending(S) ==
    IF S = {} THEN <<>>
    ELSE LET least == CHOOSE x \in S : \A y \in S : x <= y
         IN <<least>> \o Ascending(S \ {least})

ToolEnded == tool_pc \in {"returned", "panicked"}

FileUntouched == file = file_at_call /\ writes = <<>>

SomeOperationFailed == \E k \in 1..Len(applied) : applied[k].error # ""

\* edit.rs:199-274 on a buffer: validation, scan, replacement, postcondition
edit_in_memory(content, old_string, new_string, replace_all) ==
    LET scan == find_matches(content, old_string)
        candidate == Replaced(content, old_string, new_string, replace_all)
        checked == validate_result(content, candidate, old_string, new_string,
                                   replace_all)
    IN IF validate_edit_params(old_string, new_string) # ""
          \/ scan.panicked \/ Len(scan.matches) = 0
          \/ (~replace_all /\ Len(scan.matches) > 1)
          \/ checked.panicked \/ checked.error # ""
       THEN [ok |-> FALSE, content |-> content]
       ELSE [ok |-> TRUE, content |-> candidate]

\* The single edits of a list, composed from left to right
RECURSIVE Composed(_, _)
Composed(content, edits) ==
    IF edits = <<>> THEN [ok |-> TRUE, content |-> content]
    ELSE LET first == edit_in_memory(content, Head(edits).old_string,
                                     Head(edits).new_string, Head(edits).replace_all)
         IN IF first.ok THEN Composed(first.content, Tail(edits))
            ELSE [ok |-> FALSE, content |-> content]

---------------------------------------------------------------------------
(* Properties of the text mutation engine *)

\* C11: multi_edit is atomic.  When an operation of the list fails, the call
\* returns an error and the file is what it was when the call began; the file
\* is handed to fs::write at most once, and only after every operation of the
\* list has succeeded in memory.
C11_MultiEditAtomic ==
    params.tool = "multi_edit" =>
        /\ SomeOperationFailed =>
              /\ tool_pc = "returned"
              /\ tool_result.status = "err"
              /\ tool_result.at = <<Len(applied)>>
              /\ FileUntouched
        /\ Len(writes) <= 1
        /\ writes # <<>> =>
              /\ Len(applied) = Len(params.edits)
              /\ ~SomeOperationFailed
              /\ writes[1] = current_content
        /\ writes = <<>> => file = file_at_call

\* C11 witness: the first operation changed the buffer, the second was not
\* found, the call has returned and the file is as before
C11_Witness ==
    /\ params.tool = "multi_edit"
    /\ tool_pc = "returned"
    /\ Len(applied) = 2
    /\ applied[1].error = "" /\ applied[1].output # applied[1].input
    /\ applied[2].error = "NotFound"
    /\ tool_result.status = "err"
    /\ file = file_at_call

\* C12: multi_edit applies its operations in list order, each to the output
\* of the one before it: the first sees the content read from the file, and
\* the content written is the output of the last.  Where every single edit of
\* a list of 1 to 50 succeeds on its own, the content written is their
\* composition from left to right.
C12_MultiEditSequential ==
    params.tool = "multi_edit" =>
        /\ \A k \in 1..Len(applied) :
              applied[k].input = IF k = 1 THEN original_content
                                 ELSE applied[k - 1].output
        /\ tool_result.status = "ok" =>
              /\ Len(applied) = Len(params.edits)
              /\ file.content = applied[Len(applied)].output
              /\ \A k \in 1..Len(applied) :
                    applied[k].output =
                        Replaced(applied[k].input, params.edits[k].old_string,
                                 params.edits[k].new_string, params.edits[k].replace_all)
        /\ (tool_pc = "returned" /\ tool_result.kind # "WriteFailed"
            /\ file_at_call.kind = "file"
            /\ params.parsed /\ Len(params.edits) \in 1..MAX_EDITS_PER_CALL
            /\ Composed(file_at_call.content, params.edits).ok) =>
              /\ tool_result.status = "ok"
              /\ file.content = Composed(file_at_call.content, params.edits).content

\* C12 witness: ["a" -> "b", "b" -> "\n"] on a file holding "a" wrote "\n"
C12_Witness ==
    /\ params = MultiEditParams(<<EditOperation(<<97>>, <<98>>, FALSE),
                                  EditOperation(<<98>>, <<10>>, FALSE)>>)
    /\ file_at_call = RegularFile(<<97>>)
    /\ tool_result.status = "ok"
    /\ file = RegularFile(<<10>>)

\* An edit call whose arguments pass validation, on a regular file
EditReachedScan ==
    /\ params.tool = "edit"
    /\ params.parsed
    /\ validate_edit_params(params.old_string, params.new_string) = ""
    /\ file_at_call.kind = "file"

OccurrencesAtCall == Occurrences(file_at_call.content, params.old_string)

\* C13: where old_string occurs k > 1 times and replace_all is false, edit
\* fails with AmbiguousMatch, the error lists k line numbers, the line on which
\* each occurrence starts, and the file is not written.
C13_AmbiguousListsLines ==
    (EditReachedScan /\ ToolEnded /\ ~params.replace_all
     /\ Cardinality(OccurrencesAtCall) > 1) =>
        /\ tool_pc = "returned"
        /\ tool_result =
              ToolErr("AmbiguousMatch",
                      [k \in 1..Cardinality(OccurrencesAtCall) |->
                          LineAt(file_at_call.content, Ascending(OccurrencesAtCall)[k])])
        /\ FileUntouched

\* C14: where old_string occurs exactly once and new_string does not contain
\* it, edit with replace_all false succeeds, and the content written has no
\* occurrence of old_string and a single occurrence of new_string, at the
\* offset where old_string was.
C14_UniqueReplaced ==
    (EditReachedScan /\ ToolEnded /\ ~params.replace_all
     /\ Cardinality(OccurrencesAtCall) = 1
     /\ ~StrContains(params.new_string, params.old_string)
     /\ tool_result.kind # "WriteFailed") =>
        /\ tool_result.status = "ok"
        /\ Occurrences(file.content, params.old_string) = {}
        /\ params.new_string # <<>> =>
              Occurrences(file.content, params.new_string) = OccurrencesAtCall

\* The candidate of an edit call that got as far as the replacement
Candidate ==
    Replaced(file_at_call.content, params.old_string, params.new_string,
             params.replace_all)

EditReachedCheck ==
    /\ EditReachedScan
    /\ matches # <<>>
    /\ tool_pc \notin {"located", "replaced"}

\* What the postcondition asks of the candidate
PostconditionHolds ==
    IF params.replace_all
    THEN Occurrences(Candidate, params.old_string) = {}
    ELSE Cardinality(Occurrences(Candidate, params.old_string))
            = Cardinality(OccurrencesAtCall) - 1

\* C15: after the replacement edit scans the candidate for old_string.  With
\* replace_all any occurrence left, and without it any count other than the
\* original count less one, makes the call fail with PostconditionFailed; such
\* a candidate (for one, a new_string that contains old_string) is never
\* written.
C15_PostconditionChecked ==
    EditReachedCheck =>
        /\ ~PostconditionHolds =>
              /\ tool_pc = "returned"
              /\ tool_result = ToolErr("PostconditionFailed", <<>>)
              /\ FileUntouched
        /\ StrContains(params.new_string, params.old_string) => ~PostconditionHolds
        /\ tool_result.kind = "PostconditionFailed" => ~PostconditionHolds
        /\ writes # <<>> => PostconditionHolds /\ writes[1] = Candidate

\* C15 witness: new_string contains old_string; the call failed with
\* PostconditionFailed and wrote nothing
C15_Witness ==
    /\ EditReachedCheck
    /\ StrContains(params.new_string, params.old_string)
    /\ tool_result = ToolErr("PostconditionFailed", <<>>)
    /\ FileUntouched

\* The errors of the steps before the write
EarlyErrors ==
    {"BadArguments", "EmptyPattern", "NoOpEdit", "FileMissing", "NotAFile",
     "NotFound", "AmbiguousMatch", "PostconditionFailed"}

\* C16: edit writes the file at most once, as one overwrite of the whole
\* file, and only after the postcondition has passed; a call that ends with an
\* error of an earlier step leaves the file as it was.
C16_WriteOnceAtEnd ==
    params.tool = "edit" =>
        /\ Len(writes) <= 1
        /\ writes # <<>> =>
              /\ tool_pc = "returned"
              /\ EditReachedCheck /\ PostconditionHolds
              /\ writes[1] = Candidate
        /\ tool_result.status = "ok" => file = RegularFile(Candidate) /\ Len(writes) = 1
        /\ (tool_result.status = "err" /\ tool_result.kind \in EarlyErrors) => FileUntouched
        /\ tool_result.status = "err" => tool_result.kind \in EarlyErrors \cup {"WriteFailed"}
        /\ writes = <<>> => file = file_at_call

\* C16 witness: two replacements made by one write
C16_Witness ==
    /\ params.tool = "edit"
    /\ tool_result.status = "ok"
    /\ tool_result.replacements = 2
    /\ Len(writes) = 1
    /\ file = RegularFile(writes[1])
    /\ file # file_at_call

---------------------------------------------------------------------------
(* Observations and properties of the compactor *)

\* The number of lines of a result: its line endings, and one more for text
\* after the last of them
LineCount(s) ==
    Cardinality({ i \in 1..Len(s) : Char(s, i) = "\n" })
        + (IF Len(s) > 0 /\ Char(s, Len(s)) # "\n" THEN 1 ELSE 0)

\* The result is one the type-specific stage has to pass through
PassesThrough(r) ==
    CASE r.tool_name = "grep" -> LineCount(r.output) <= 30
      [] r.tool_name = "read" -> LineCount(r.output) <= 2000
      [] r.tool_name \in {"ls", "glob"} -> LineCount(r.output) <= 100
      [] OTHER -> TRUE

\* The digits of a short string
RECURSIVE DigitsIn(_)
DigitsIn(s) ==
    IF s = "" THEN ""
    ELSE (IF Char(s, 1) \in {"0", "1", "2", "3", "4", "5", "6", "7", "8", "9"}
          THEN Char(s, 1) ELSE "") \o DigitsIn(SubSeq(s, 2, Len(s)))

\* What follows the first 30000 bytes of a fed-back content
MarkerOf(content) == SubSeq(content, 30000 + 1, Len(content))

\* C17, as stated: whatever is at or under the threshold of its type, or of
\* another type, is fed back exactly as it was.
C17_PassThroughExact ==
    \A k \in 1..Len(fed_back) :
        PassesThrough(raw_results[k]) => fed_back[k] = raw_results[k].output

\* C17, amended: such a result leaves the type-specific stage exactly as it
\* was, and is fed back exactly as it was when it is no longer than the flat
\* cap.
C17_PassThroughUnderCap ==
    /\ \A k \in 1..Len(processed_results) :
          PassesThrough(raw_results[k]) =>
              processed_results[k] = raw_results[k]
    /\ \A k \in 1..Len(raw_results) :
          (PassesThrough(raw_results[k]) /\ Len(raw_results[k].output) <= 30000) =>
              /\ compact_pc # "panicked"
              /\ k <= Len(fed_back) => fed_back[k] = raw_results[k].output

\* C17 witness: a search result of exactly 30 lines was fed back as it was
C17_Witness ==
    /\ compact_pc = "fed"
    /\ raw_results[1].tool_name = "grep"
    /\ LineCount(raw_results[1].output) = 30
    /\ fed_back[1] = raw_results[1].output

\* C18, as stated: a result longer than the cap is cut to the cap and the
\* marker states how many characters were removed; a result at or under the
\* cap is unchanged.
C18_CapMarkerRemoved ==
    \A k \in 1..Len(fed_back) :
        LET p == processed_results[k].output IN
        IF Len(p) <= 30000 THEN fed_back[k] = p
        ELSE /\ SubSeq(fed_back[k], 1, 30000) = SubSeq(p, 1, 30000)
             /\ DigitsIn(MarkerOf(fed_back[k])) = ToString(Len(p) - 30000)

\* C18, amended: a result of any type that is longer than the cap after the
\* type-specific stage is cut to its first 30000 bytes and the marker states
\* the length of the whole result; a result at or under the cap is unchanged;
\* the push panics exactly when the cap falls inside a character.
C18_CapMarkerTotal ==
    /\ \A k \in 1..Len(fed_back) :
          LET p == processed_results[k].output IN
          IF Len(p) <= 30000 THEN fed_back[k] = p
          ELSE /\ SubSeq(fed_back[k], 1, 30000) = SubSeq(p, 1, 30000)
               /\ MarkerOf(fed_back[k])
                     = "... [TRUNCATED - " \o ToString(Len(p)) \o " total chars]"
    /\ compact_pc = "panicked" =>
          LET p == processed_results[Len(fed_back) + 1].output IN
          Len(p) > 30000 /\ Char(p, 30000 + 1) \in ContinuationBytes
    /\ compact_pc = "fed" => Len(fed_back) = Len(raw_results)

\* C18 witness: the output of bash, one byte over the cap, was cut
C18_Witness ==
    /\ compact_pc = "fed"
    /\ raw_results[1].tool_name = "bash"
    /\ Len(raw_results[1].output) = 30000 + 1
    /\ fed_back[1] # raw_results[1].output
    /\ SubSeq(fed_back[1], 1, 30000) = SubSeq(raw_results[1].output, 1, 30000)

\* C19: truncate_content returns a result for every input, also where byte
\* 30000 is inside a multi-byte character, and what it keeps ends on a
\* character boundary.
C19_CutBoundarySafe ==
    /\ compact_pc # "panicked"
    /\ \A k \in 1..Len(fed_back) :
          Len(processed_results[k].output) > 30000 =>
              Char(fed_back[k], 30000 + 1) \notin ContinuationBytes

---------------------------------------------------------------------------
(* Properties of the audit sink *)

\* The sink holds a record of the call behind future k
Recorded(k) ==
    \E f \in sink : /\ f.agent_type = futures[k].tool_name
                    /\ f.what = futures[k].tool_use_id

\* C20: every call of a batch that has come back, whether the tool succeeded,
\* failed or is not registered, has a record in the audit sink under the
\* tool's name.  (A call whose record could not be written comes back as an
\* error and is left out.)
C20_EveryCallRecorded ==
    variant = "file" =>
        \A k \in 1..Len(futures) :
            (futures[k].st = "done" /\ futures[k].ok) => Recorded(k)

---------------------------------------------------------------------------
(* The audit sink across tasks *)

\* The sequence numbers of the running task grow strictly
StrictlyIncreasing(log) ==
    \A i \in 1..Len(log), j \in 1..Len(log) : i < j => log[i] < log[j]

\* Every record in the sink was written by the running task
OnlyThisTask == \A f \in sink : f.what = ToString(task_no)

\* C21: during a task the sequence numbers handed out grow strictly, the first
\* record of every task gets sequence number 1 and no record of an earlier
\* task is in the sink, whether or not removing the old directory succeeded.
C21_TaskStartsClean ==
    audit_pc = "task" =>
        /\ StrictlyIncreasing(task_log)
        /\ (task_log # <<>> => task_log[1] = 1)
        /\ OnlyThisTask

---------------------------------------------------------------------------
(* The shape of a round in the conversation *)

\* Number of assistant messages in the conversation
AssistantCount ==
    Cardinality({ k \in 1..Len(messages) : messages[k].role = "assistant" })

\* A message that carries one tool_result block
IsToolResultMessage(m) ==
    m.role = "user" /\ Len(m.content) = 1 /\ m.content[1].type = "tool_result"

\* C22: a round whose response has k >= 1 ToolCall blocks extends the
\* conversation by exactly one assistant message, which is the response content
\* verbatim, followed by exactly k user tool_result messages; the assistant
\* message is appended once a round and is no partial prefix of the response.
C22_RoundExtendsOnce ==
    (RoundFedBack /\ HasToolCalls(response)) =>
        LET k == Len(CallBlocks(response.content))
            n == Len(messages)
        IN /\ n >= k + 2
           /\ messages[n - k] = Message("assistant", response.content)
           /\ \A j \in 1..k : IsToolResultMessage(messages[n - k + j])
           /\ AssistantCount = dispatches

---------------------------------------------------------------------------
(* The two drivers against one loop *)

\* What of a message does not depend on the capability type: its role, the
\* blocks of an assistant or task message, the correlation id of a result
ShapeOf(m) ==
    IF IsToolResultMessage(m)
    THEN [role |-> m.role, blocks |-> <<>>, id |-> m.content[1].tool_use_id]
    ELSE [role |-> m.role, blocks |-> m.content, id |-> ""]

Shape(msgs) == [k \in 1..Len(msgs) |-> ShapeOf(msgs[k])]

\* The messages the loop of file/claude.rs:202-224 appends for one response
RoundShape(resp) ==
    IF HasToolCalls(resp)
    THEN Shape(FeedBack(resp.content,
                        [k \in 1..Len(CallBlocks(resp.content)) |->
                            [tool_use_id |-> CallBlocks(resp.content)[k].id,
                             output |-> ""]]))
    ELSE <<>>

\* The conversation that loop builds from the responses of a log
RECURSIVE LoopShape(_)
LoopShape(log) ==
    IF Len(log) = 0 THEN Shape(<<Message("user", <<TextBlock(Task)>>)>>)
    ELSE LoopShape(SubSeq(log, 1, Len(log) - 1)) \o RoundShape(Last(log).response)

\* What that loop returns after a response without ToolCall blocks
LoopResult(resp) ==
    IF resp.has_content /\ ParseTextResponse(resp.content) # ""
    THEN Ok(ParseTextResponse(resp.content))
    ELSE Ok(TaskCompleted)

\* C23: both drivers run the same loop: fed the same engine responses they
\* append the same sequence of messages (up to the capability's output), end in
\* the same round, the first whose response has no ToolCall block, and return
\* the same result.
C23_SameLoop ==
    /\ pc \in {"loop", "returned"} => Shape(messages) = LoopShape(engine_log)
    /\ (pc = "loop" /\ round >= 1) => HasToolCalls(response)
    /\ pc = "returned" =>
          /\ ~HasToolCalls(response)
          /\ result = LoopResult(response)

---------------------------------------------------------------------------
(* Text beside tool calls *)

\* C24: the text of a response that also has ToolCall blocks is discarded: the
\* calls are dispatched, the loop continues, and what the task returns is
\* the generic completion string or a text of the final response, which has no
\* ToolCall block; this holds for both drivers.
C24_SimultaneousTextDiscarded ==
    /\ (pc = "returned" /\ engine_log # <<>>) =>
          \/ result = Ok(TaskCompleted)
          \/ /\ ~HasToolCalls(Last(engine_log).response)
             /\ result.ok
             /\ result.value \in Range(TextsOf(Last(engine_log).response.content))
    /\ (pc = "returned" /\ HasToolCalls(response)) => result = Ok(TaskCompleted)

---------------------------------------------------------------------------
(* The order of the single-edit checks *)

\* The error the checks of edit decide, in their order, "" where all pass
FirstFailedCheck ==
    IF params.old_string = <<>> THEN "EmptyPattern"
    ELSE IF params.old_string = params.new_string THEN "NoOpEdit"
    ELSE IF file_at_call.kind # "file" THEN ""
    ELSE IF OccurrencesAtCall = {} THEN "NotFound"
    ELSE IF ~params.replace_all /\ Cardinality(OccurrencesAtCall) > 1
    THEN "AmbiguousMatch"
    ELSE ""

\* C25: the checks of edit run in a fixed order and the first that fails
\* decides the error: EmptyPattern, else NoOpEdit (both without reading the
\* file, so also when the file does not exist), else NotFound for zero
\* occurrences, else AmbiguousMatch for several occurrences without replace_all.
C25_CheckOrder ==
    (params.tool = "edit" /\ params.parsed /\ ToolEnded /\ FirstFailedCheck # "") =>
        /\ tool_pc = "returned"
        /\ tool_result.status = "err"
        /\ tool_result.kind = FirstFailedCheck
        /\ FileUntouched

---------------------------------------------------------------------------
(* The occurrence scan *)

\* Two spans (start, end, line) that share a byte
SpansOverlap(s, t) == s[1] < t[2] /\ t[1] < s[2]

\* Replacements str::replace makes: occurrences found left to right, each
\* search resuming at the end of the previous occurrence
RECURSIVE ReplaceCount(_, _)
ReplaceCount(s, old) ==
    LET p == StrFind(s, old) IN
    IF p = -1 THEN 0
    ELSE 1 + ReplaceCount(Slice(s, p + Len(old), Len(s)), old)

\* C26: the spans find_matches returns are in increasing offset order, no two
\* of them share a byte, and their number is the number of replacements a
\* replace-all of the pattern performs.
C26_SpansDisjoint ==
    (params.tool = "edit" /\ tool_pc = "located") =>
        /\ \A i \in 1..Len(matches), j \in 1..Len(matches) :
              i < j => /\ matches[i][1] < matches[j][1]
                       /\ ~SpansOverlap(matches[i], matches[j])
        /\ Len(matches) = ReplaceCount(original_content, params.old_string)

---------------------------------------------------------------------------
(* multi_edit against edit *)

\* What edit does with the only operation of a one-element list
SingleEdit ==
    edit_in_memory(file_at_call.content, params.edits[1].old_string,
                   params.edits[1].new_string, params.edits[1].replace_all)

\* C27: each operation of a multi_edit runs the whole single-edit contract, the
\* postcondition re-scan included: a multi_edit with the one-element list [e]
\* succeeds exactly when edit(e) succeeds on the same file, and then leaves the
\* same content; it fails, writing nothing, exactly when edit(e) fails.
C27_SingletonIsEdit ==
    (params.tool = "multi_edit" /\ params.parsed /\ Len(params.edits) = 1
     /\ file_at_call.kind = "file" /\ ToolEnded /\ tool_result.kind # "WriteFailed") =>
        IF SingleEdit.ok
        THEN tool_result.status = "ok" /\ file.content = SingleEdit.content
        ELSE tool_result.status # "ok" /\ FileUntouched

---------------------------------------------------------------------------
(* Up-front validation of a multi_edit list *)

\* An operation no list may hold: empty old_string, or old_string = new_string
InvalidOperation(e) == e.old_string = <<>> \/ e.old_string = e.new_string

\* A list validate_edits has to reject
InvalidList(edits) ==
    \/ Len(edits) = 0
    \/ Len(edits) > MAX_EDITS_PER_CALL
    \/ \E i \in 1..Len(edits) : InvalidOperation(edits[i])

ValidationErrors == {"NoEdits", "TooManyEdits", "EmptyPattern", "NoOpEdit"}

\* C28: multi_edit validates the whole list before anything else.  An empty
\* list, a list of more than 50 operations and a list with an invalid operation
\* at any position are rejected before the file is read and before any
\* operation is applied, and nothing is written; a list of 1 to 50 valid
\* operations passes validation.
C28_ValidatedUpFront ==
    (params.tool = "multi_edit" /\ params.parsed) =>
        IF InvalidList(params.edits)
        THEN /\ tool_pc \in {"called", "returned"}
             /\ tool_pc = "returned" =>
                   /\ tool_result.status = "err"
                   /\ tool_result.kind \in ValidationErrors
                   /\ Len(params.edits) = 0 => tool_result.kind = "NoEdits"
                   /\ Len(params.edits) > MAX_EDITS_PER_CALL =>
                         tool_result.kind = "TooManyEdits"
             /\ applied = <<>>
             /\ edit_index = 0
             /\ FileUntouched
        ELSE tool_result.kind \notin ValidationErrors

\* C28 witness: a list of 51 valid operations was rejected as too long, on a
\* file its first operation applies to
C28_Witness ==
    /\ params.tool = "multi_edit"
    /\ params.parsed
    /\ Len(params.edits) = MAX_EDITS_PER_CALL + 1
    /\ \A i \in 1..Len(params.edits) : ~InvalidOperation(params.edits[i])
    /\ file_at_call = RegularFile(<<97>>)
    /\ tool_pc = "returned"
    /\ tool_result = ToolErr("TooManyEdits", <<>>)
    /\ FileUntouched

---------------------------------------------------------------------------
(* Concurrency of a batch *)

\* The correlation ids of the executor invocations made in round r
StartedIn(r) == { executed[k][2] : k \in { j \in 1..Len(executed) : executed[j][1] = r } }

\* The ToolCall blocks of the response that reach an executor: they name a
\* registered capability and, for an agent, carry a task
BatchIds ==
    { b.id : b \in { c \in Range(CallBlocks(response.content)) :
                       /\ c.name \in Registry(variant)
                       /\ variant = "orch" => c.input.task # Absent } }

\* C29: all calls of a batch are launched concurrently: every call of the
\* batch has been started before any of them has finished, for both drivers.
C29_BatchLaunchedTogether ==
    (\E k \in 1..Len(outcomes) : outcomes[k].round = round) =>
        BatchIds \subseteq StartedIn(round)

---------------------------------------------------------------------------
(* What aborts a task *)

\* C30: only a transport failure aborts a task: call_claude_api returns an
\* error only when an engine request failed in transport or came back with a
\* non-success status, and no capability-local event, a failed audit write or
\* a failure in compaction included, ends the round or the task.
C30_OnlyTransportAborts ==
    (pc \in {"returned", "failed"} /\ ~result.ok) => TransportFailed

---------------------------------------------------------------------------
(* The cap on what is fed back *)

\* The marker of truncate_content for a result of n bytes
TruncationMarker(n) == "... [TRUNCATED - " \o ToString(n) \o " total chars]"

\* The contents of the tool_result blocks of the conversation
ToolResultContents ==
    { messages[k].content[1].content :
        k \in { j \in 1..Len(messages) : IsToolResultMessage(messages[j]) } }

\* C31: every tool_result content of the conversation, under either driver,
\* has been through the compactor: it is no longer than the flat cap plus the
\* truncation marker.
C31_FedBackCapped ==
    \A c \in ToolResultContents :
        Len(c) <= TOOL_OUTPUT_LIMIT + Len(TruncationMarker(2 * TOOL_OUTPUT_LIMIT))

---------------------------------------------------------------------------
(* The windowed summaries of search results and listings *)

\* The sources the lines of a search result name: what precedes the first
\* ":" of a line that has one
SourcesOf(ls) ==
    LET HasColon(l) == \E h \in 1..Len(l) : Char(l, h) = ":"
        FirstColon(l) == CHOOSE h \in 1..Len(l) :
                             /\ Char(l, h) = ":"
                             /\ \A g \in 1..(h - 1) : Char(l, g) # ":"
    IN { SubSeq(ls[k], 1, FirstColon(ls[k]) - 1) :
           k \in { j \in 1..Len(ls) : HasColon(ls[j]) } }

\* The first line of a windowed summary of n lines that name f sources
SummaryHeader(tool_name, n, f) ==
    CASE tool_name = "grep" ->
            "Found " \o ToString(n) \o " matches across " \o ToString(f) \o " files."
      [] tool_name = "ls" -> "Large directory listing (" \o ToString(n) \o " items):"
      [] tool_name = "glob" -> "Found " \o ToString(n) \o " matching files:"

\* The result is summarised by a first and a last window
Windowed(r) == r.tool_name \in {"grep", "ls", "glob"} /\ ~PassesThrough(r)

\* C32: the summary of a search result of more than 30 lines, or of a listing
\* of more than 100 items, states the number of input lines (and, for a
\* search, of distinct sources), then shows the first 50 input lines, the
\* elision marker and the last 10 input lines, as they were and in order.
C32_WindowedSummary ==
    \A k \in 1..Len(processed_results) :
        LET r == raw_results[k]
            n == LineCount(r.output)
            input == Lines(r.output)
            out == Lines(processed_results[k].output)
            head == IF n < 50 THEN n ELSE 50
        IN Windowed(r) =>
              /\ out[1] = SummaryHeader(r.tool_name, n, Cardinality(SourcesOf(input)))
              /\ SubSeq(out, 4, 3 + head) = SubSeq(input, 1, head)
              /\ out[head + 5] = "... [TRUNCATED] ..."
              /\ SubSeq(out, head + 8, Len(out)) = SubSeq(input, n - 9, n)

\* C32 witness: a search result of 31 lines that name three sources was
\* summarised
C32_Witness ==
    /\ compact_pc = "fed"
    /\ raw_results[1].tool_name = "grep"
    /\ raw_results[1].output = Numbered(1, GREP_TRUNCATE_THRESHOLD + 1)
    /\ Lines(processed_results[1].output)[1] = "Found 31 matches across 3 files."

---------------------------------------------------------------------------
(* The preview of a long file *)

\* The result is a file content that is summarised by three windows
Previewed(r) == r.tool_name = "read" /\ ~PassesThrough(r)

\* The three windows of the preview of n input lines, as lines lo..hi of the
\* input counted from 1
PreviewWindows(n) ==
    << <<1, 50>>, <<(n \div 2) - 24, (n \div 2) + 25>>, <<n - 49, n>> >>

\* The preview shows the three windows of the input under three labels: a
\* title and, for each window, an empty line, its label and its 50 lines
\* (the label of window i is line 52 * i - 49 of the preview)
ShowsWindows(input, out) ==
    LET w == PreviewWindows(Len(input)) IN
    /\ Len(out) = 157
    /\ \A i \in 1..3 :
          SubSeq(out, 52 * i - 48, 52 * i + 1) = SubSeq(input, w[i][1], w[i][2])

\* C33, as stated: a file content of more than 2000 lines becomes three
\* labelled windows (the first 50 lines, 50 lines centred at the midpoint,
\* the last 50 lines) and the label of each window states the number of the
\* line at which the window starts.
C33_LabelsStateStart ==
    \A k \in 1..Len(processed_results) :
        LET r == raw_results[k]
            input == Lines(r.output)
            out == Lines(processed_results[k].output)
            w == PreviewWindows(Len(input))
        IN Previewed(r) =>
              /\ ShowsWindows(input, out)
              /\ \A i \in 1..3 : DigitsIn(out[52 * i - 49]) = ToString(w[i][1])

\* C33, amended: the three windows are as stated; the labels are "BEGINNING
\* (50 lines):", "MIDDLE (around line m):" with m the midpoint (half the
\* number of lines, rounded down), and "END (last 50 lines):".  Only the
\* middle label carries a line number, and its window starts 24 lines before it.
C33_LabelsStateMidpoint ==
    \A k \in 1..Len(processed_results) :
        LET r == raw_results[k]
            n == LineCount(r.output)
            input == Lines(r.output)
            out == Lines(processed_results[k].output)
        IN Previewed(r) =>
              /\ ShowsWindows(input, out)
              /\ out[1] = "=== FILE PREVIEW (Large file: " \o ToString(n) \o " lines) ==="
              /\ out[3] = "BEGINNING (50 lines):"
              /\ out[55] = "MIDDLE (around line " \o ToString(n \div 2) \o "):"
              /\ out[107] = "END (last 50 lines):"

\* C33 witness: a file content of 2001 numbered lines was summarised, its
\* middle window under the label of line 1000 starting with line 976
C33_Witness ==
    /\ compact_pc = "fed"
    /\ raw_results[1].tool_name = "read"
    /\ raw_results[1].output = Numbered(1, READ_TRUNCATE_THRESHOLD + 1)
    /\ Lines(processed_results[1].output)[55] = "MIDDLE (around line 1000):"
    /\ Lines(processed_results[1].output)[56] = NumberedLine(976)

---------------------------------------------------------------------------
(* The two windows of a search summary *)

\* The lines a windowed summary shows: those under its first label, then
\* those under its last label
ShownLines(out, head) == SubSeq(out, 4, 3 + head) \o SubSeq(out, head + 8, Len(out))

\* How often line l occurs in ls
TimesIn(ls, l) == Cardinality({ k \in 1..Len(ls) : ls[k] = l })

\* C38: the summary of a search result of more than 30 lines shows each
\* input line at most once: the window of the first 50 lines and the window
\* of the last 10 lines do not overlap, and no more lines are shown than the
\* input had.
C38_WindowsDisjoint ==
    \A k \in 1..Len(processed_results) :
        LET r == raw_results[k]
            input == Lines(r.output)
            out == Lines(processed_results[k].output)
            shown == ShownLines(out, IF Len(input) < 50 THEN Len(input) ELSE 50)
        IN (r.tool_name = "grep" /\ ~PassesThrough(r)) =>
              /\ Len(shown) <= Len(input)
              /\ \A l \in Range(shown) : TimesIn(shown, l) <= TimesIn(input, l)

---------------------------------------------------------------------------
(* Two tasks in one process *)

\* The record of store_claude_message call h is in the sink
InSink(h) ==
    \E f \in sink : /\ f.seq = h.seq
                    /\ f.agent_type = h.agent_type
                    /\ f.what = ToString(h.task)

\* C34: the counter and the wipe of the sink are shared by the tasks of a
\* process and nothing protects them: while one task is in flight a second
\* one can start at any moment, and its start empties the sink and resets the
\* counter whatever the first has written.  So there is an interleaving in
\* which records the first task wrote are deleted and two of its records
\* receive the same sequence number (C34_Witness).
C34_StartUnprotected ==
    (in_flight # {} /\ task_no <= 1) =>
        ENABLED (TaskStartBeside /\ sink' = {} /\ GLOBAL_COUNTER' = 1)

\* C34 witness: two tasks are in flight; a record the first has written is
\* gone from the sink, and the first has been handed its number once more
C34_Witness ==
    /\ in_flight = {1, 2}
    /\ \E i, j \in 1..Len(handed) :
          /\ i # j
          /\ handed[i].task = 1 /\ handed[j].task = 1
          /\ handed[i].st = "written"
          /\ ~InSink(handed[i])
          /\ handed[j].seq = handed[i].seq

---------------------------------------------------------------------------
(* The records of one task *)

\* The records a step takes out of the sink or replaces
Removed == sink \ sink'

\* C39: within one task no two store_claude_message calls are handed the same
\* sequence number, however the calls of a batch and of nested drivers
\* interleave, and no record written during a task replaces a record of the
\* same task.
C39_TaskNumbersDistinct ==
    /\ [](\A i, j \in 1..Len(handed) :
             (i # j /\ handed[i].task = handed[j].task) =>
                 handed[i].seq # handed[j].seq)
    /\ [][\A f \in Removed : \A t \in in_flight : f.what # ToString(t)]_vars

\* C39 witness: two calls of one task for the same agent_type were under way
\* together; the one that took the later number has written its record first
C39_Witness ==
    /\ Len(handed) = 2
    /\ handed[1].task = handed[2].task
    /\ handed[1].agent_type = handed[2].agent_type
    /\ handed[1].st = "pending"
    /\ handed[2].st = "written"
    /\ InSink(handed[2])

---------------------------------------------------------------------------
(* Progress of a round *)

\* C35: every round of either driver ends the loop or appends at least one
\* message, whatever the shape of the response, so that no two requests in a
\* row carry the same conversation: when request k is sent, the conversation
\* holds the task and at least one message of each of the k - 1 rounds before.
C35_EveryRoundAppends ==
    pc = "awaiting" => Len(messages) >= requests

---------------------------------------------------------------------------
(* Pairing of calls and results in the conversation *)

\* The indices of the tool_result messages that follow message k, up to the
\* next assistant message
AnswersAfter(k) ==
    { j \in (k + 1)..Len(messages) :
        /\ IsToolResultMessage(messages[j])
        /\ \A i \in (k + 1)..j : messages[i].role # "assistant" }

\* The tool_use blocks of message k
ToolUsesOf(k) ==
    { i \in 1..Len(messages[k].content) : messages[k].content[i].type = "tool_use" }

\* C36: in every conversation that is sent to the engine, each tool_use block
\* of an assistant message is answered by exactly one tool_result with its
\* id before the next request, and every tool_result answers a tool_use block
\* of the assistant message before it, also when tool_use blocks are
\* malformed or the result of a call could not be recorded.
C36_CallsAndResultsPaired ==
    pc = "awaiting" =>
        \A k \in { i \in 1..Len(messages) : messages[i].role = "assistant" } :
            /\ \A b \in ToolUsesOf(k) :
                  Cardinality({ j \in AnswersAfter(k) :
                      messages[j].content[1].tool_use_id = messages[k].content[b].id }) = 1
            /\ \A j \in AnswersAfter(k) :
                  \E b \in ToolUsesOf(k) :
                      messages[k].content[b].id = messages[j].content[1].tool_use_id

---------------------------------------------------------------------------
(* The replacement counts a call reports *)

\* The replacements one operation makes in `content`
ReplacementsMade(content, old_string, replace_all) ==
    IF replace_all THEN ReplaceCount(content, old_string) ELSE 1

\* C37: on success the replacement count edit reports, and each count and
\* the total multi_edit reports, is the number of occurrences the call has
\* replaced, also for a pattern that overlaps itself.
C37_CountsAreReplacements ==
    tool_result.status = "ok" =>
        IF params.tool = "edit"
        THEN tool_result.replacements =
                 ReplacementsMade(file_at_call.content, params.old_string,
                                  params.replace_all)
        ELSE /\ Len(tool_result.at) = Len(params.edits)
             /\ \A k \in 1..Len(params.edits) :
                   tool_result.at[k] =
                       ReplacementsMade(applied[k].input, params.edits[k].old_string,
                                        params.edits[k].replace_all)
             /\ tool_result.replacements = Sum(tool_result.at)

---------------------------------------------------------------------------
(* The scan on multi-byte text *)

\* The pattern of the first scan of the call
FirstPattern ==
    IF params.tool = "edit" THEN params.old_string ELSE params.edits[1].old_string

\* C40: find_matches ends with a list of spans, without failing, for every
\* content and every non-empty pattern, multi-byte characters included: the
\* offset at which it resumes is always one at which the content may be cut.
C40_ScanNeverFails ==
    (tool_pc = "read" /\ FirstPattern # <<>>) =>
        ~find_matches(original_content, FirstPattern).panicked

=============================================================================
